---------------------------- MODULE Spec2Model ----------------------------
(***************************************************************************)
(* Bearer-token authentication of the Weather MCP server:                  *)
(*   utils/auth.py            generate_token, validate_token,              *)
(*                            extract_token_from_header,                   *)
(*                            get_token_from_request                       *)
(*   main.py                  configuration loading, authenticate_request, *)
(*                            AuthMiddleware.dispatch, the transports      *)
(*   auth_proxy.py            configuration loading, authenticate, the     *)
(*                            proxied routes and their log entries         *)
(*   utils/auth_transport.py  AuthenticatedSseTransport.handle_request     *)
(*   generate_token.py        main                                         *)
(*                                                                         *)
(* A Python str is a sequence of one-character strings, bytes are a        *)
(* sequence of integers 0..255, a dict is a sequence of <<key, value>>     *)
(* pairs in insertion order with distinct keys, and a value is a record    *)
(* tagged "none", "int", "str" or "obj".                                   *)
(***************************************************************************)
EXTENDS Integers, Sequences, FiniteSets, TLC

(***************************************************************************)
(* Bounds of the model.                                                    *)
(***************************************************************************)
\* clock values are 0..MaxClock, in ticks
MaxClock == 3
\* ticks per second: time.time() is a float, int(time.time()) truncates it
TicksPerSecond == 2
\* HMAC block size in bytes (64 for SHA-256): keys are zero-padded to it
HmacBlock == 3
\* hex characters of a jti (32 for secrets.token_hex(16))
JtiLen == 2

(***************************************************************************)
(* Characters and bytes: str.encode('utf-8') and bytes.decode('utf-8') on  *)
(* ASCII text.  NUL is the character U+0000, GRAVE the character U+0060.   *)
(***************************************************************************)
NUL == "NUL"

Printable ==
    << " ", "!", "\"", "#", "$", "%", "&", "'", "(", ")", "*", "+", ",", "-",
       ".", "/", "0", "1", "2", "3", "4", "5", "6", "7", "8", "9", ":", ";",
       "<", "=", ">", "?", "@", "A", "B", "C", "D", "E", "F", "G", "H", "I",
       "J", "K", "L", "M", "N", "O", "P", "Q", "R", "S", "T", "U", "V", "W",
       "X", "Y", "Z", "[", "\\", "]", "^", "_", "GRAVE", "a", "b", "c", "d", "e",
       "f", "g", "h", "i", "j", "k", "l", "m", "n", "o", "p", "q", "r", "s",
       "t", "u", "v", "w", "x", "y", "z", "{", "|", "}", "~" >>

Range(s) == { s[i] : i \in DOMAIN s }

Char == Range(Printable) \cup {NUL}

OrdTable == [ c \in Char |-> IF c = NUL THEN 0
                             ELSE 31 + CHOOSE i \in DOMAIN Printable : Printable[i] = c ]

Ord(c) == OrdTable[c]

Chr(n) == IF n = 0 THEN NUL ELSE Printable[n - 31]

\* bytes that decode as ASCII text of the model's alphabet
IsText(bytes) == \A i \in DOMAIN bytes : bytes[i] = 0 \/ bytes[i] \in 32..126

Encode(str) == [ i \in DOMAIN str |-> Ord(str[i]) ]

Decode(bytes) == [ i \in DOMAIN bytes |-> Chr(bytes[i]) ]

(***************************************************************************)
(* base64.urlsafe_b64encode / urlsafe_b64decode.                           *)
(***************************************************************************)
B64Alphabet ==
    << "A", "B", "C", "D", "E", "F", "G", "H", "I", "J", "K", "L", "M", "N",
       "O", "P", "Q", "R", "S", "T", "U", "V", "W", "X", "Y", "Z", "a", "b",
       "c", "d", "e", "f", "g", "h", "i", "j", "k", "l", "m", "n", "o", "p",
       "q", "r", "s", "t", "u", "v", "w", "x", "y", "z", "0", "1", "2", "3",
       "4", "5", "6", "7", "8", "9", "-", "_" >>

B64Chars == Range(B64Alphabet)

B64Digit(n) == B64Alphabet[n + 1]

B64ValueTable == [ c \in B64Chars |-> (CHOOSE i \in DOMAIN B64Alphabet : B64Alphabet[i] = c) - 1 ]

B64Value(c) == B64ValueTable[c]

RECURSIVE urlsafe_b64encode(_)
urlsafe_b64encode(bytes) ==
    IF Len(bytes) = 0 THEN << >>
    ELSE IF Len(bytes) = 1 THEN
        << B64Digit(bytes[1] \div 4), B64Digit((bytes[1] % 4) * 16), "=", "=" >>
    ELSE IF Len(bytes) = 2 THEN
        << B64Digit(bytes[1] \div 4),
           B64Digit((bytes[1] % 4) * 16 + bytes[2] \div 16),
           B64Digit((bytes[2] % 16) * 4), "=" >>
    ELSE
        << B64Digit(bytes[1] \div 4),
           B64Digit((bytes[1] % 4) * 16 + bytes[2] \div 16),
           B64Digit((bytes[2] % 16) * 4 + bytes[3] \div 64),
           B64Digit(bytes[3] % 64) >>
        \o urlsafe_b64encode(SubSeq(bytes, 4, Len(bytes)))

\* str.rstrip('=')
RECURSIVE rstrip(_, _)
rstrip(str, ch) ==
    IF Len(str) > 0 /\ str[Len(str)] = ch
    THEN rstrip(SubSeq(str, 1, Len(str) - 1), ch)
    ELSE str

Repeat(ch, n) == [ i \in 1..n |-> ch ]

\* the characters of str that are in keep, in order
Filter(str, keep) == SelectSeq(str, LAMBDA c : c \in keep)

\* the bytes of a run of base64 digits whose length is not 1 mod 4
RECURSIVE B64Bytes(_)
B64Bytes(digits) ==
    IF Len(digits) < 2 THEN << >>
    ELSE IF Len(digits) = 2 THEN
        << B64Value(digits[1]) * 4 + B64Value(digits[2]) \div 16 >>
    ELSE IF Len(digits) = 3 THEN
        << B64Value(digits[1]) * 4 + B64Value(digits[2]) \div 16,
           (B64Value(digits[2]) % 16) * 16 + B64Value(digits[3]) \div 4 >>
    ELSE
        << B64Value(digits[1]) * 4 + B64Value(digits[2]) \div 16,
           (B64Value(digits[2]) % 16) * 16 + B64Value(digits[3]) \div 4,
           (B64Value(digits[3]) % 4) * 64 + B64Value(digits[4]) >>
        \o B64Bytes(SubSeq(digits, 5, Len(digits)))

\* binascii.Error
B64Error == [ ok |-> FALSE, error |-> "binascii.Error" ]

\* Non-strict decoding: characters outside the alphabet are discarded, excess
\* padding is accepted, missing padding or a lone trailing digit is an error.
urlsafe_b64decode(str) ==
    LET digits == Filter(str, B64Chars)
        pads   == Len(Filter(str, {"="}))
        need   == (4 - (Len(digits) % 4)) % 4
    IN  IF Len(digits) % 4 = 1 \/ pads < need
        THEN B64Error
        ELSE [ ok |-> TRUE, bytes |-> B64Bytes(digits) ]

(***************************************************************************)
(* Python values and dicts.                                                *)
(***************************************************************************)
PyNone == [ t |-> "none" ]

PyInt(n) == [ t |-> "int", v |-> n ]

PyStr(s) == [ t |-> "str", v |-> s ]

\* a dict: a sequence of <<key, value>> pairs, keys distinct strings
PyDict(pairs) == [ t |-> "obj", v |-> pairs ]

\* bool(x) of a Python value
Truthy(x) ==
    CASE x.t = "none" -> FALSE
      [] x.t = "int"  -> x.v # 0
      [] x.t = "str"  -> Len(x.v) > 0
      [] x.t = "obj"  -> Len(x.v) > 0

\* key in d
DictHas(d, k) == \E i \in DOMAIN d : d[i][1] = k

\* d[key]
DictGet(d, k) == d[CHOOSE i \in DOMAIN d : d[i][1] = k][2]

\* d[key] = value: an existing key keeps its position
DictSet(d, k, x) ==
    IF DictHas(d, k)
    THEN [ i \in DOMAIN d |-> IF d[i][1] = k THEN << k, x >> ELSE d[i] ]
    ELSE Append(d, << k, x >>)

\* d.update(other)
RECURSIVE DictUpdate(_, _)
DictUpdate(d, other) ==
    IF Len(other) = 0 THEN d
    ELSE DictUpdate(DictSet(d, other[1][1], other[1][2]), Tail(other))

(***************************************************************************)
(* json.dumps and json.loads on flat objects of integers and strings.      *)
(***************************************************************************)
Digits == { "0", "1", "2", "3", "4", "5", "6", "7", "8", "9" }

DigitChar(d) == Chr(48 + d)

DigitValue(c) == Ord(c) - 48

RECURSIVE NatToStr(_)
NatToStr(n) ==
    IF n < 10 THEN << DigitChar(n) >>
    ELSE Append(NatToStr(n \div 10), DigitChar(n % 10))

IntToStr(n) == IF n < 0 THEN << "-" >> \o NatToStr(0 - n) ELSE NatToStr(n)

RECURSIVE JsonEscape(_)
JsonEscape(str) ==
    IF Len(str) = 0 THEN << >>
    ELSE (IF str[1] \in { "\"", "\\" } THEN << "\\", str[1] >> ELSE << str[1] >>)
         \o JsonEscape(Tail(str))

JsonQuote(str) == << "\"" >> \o JsonEscape(str) \o << "\"" >>

JsonScalar(x) == IF x.t = "int" THEN IntToStr(x.v) ELSE JsonQuote(x.v)

RECURSIVE JsonMembers(_)
JsonMembers(d) ==
    IF Len(d) = 0 THEN << >>
    ELSE JsonQuote(d[1][1]) \o << ":", " " >> \o JsonScalar(d[1][2])
         \o (IF Len(d) > 1 THEN << ",", " " >> ELSE << >>)
         \o JsonMembers(Tail(d))

\* json.dumps(value) with the default separators
json_dumps(x) ==
    IF x.t = "obj" THEN << "{" >> \o JsonMembers(x.v) \o << "}" >>
    ELSE JsonScalar(x)

\* json.JSONDecodeError
JsonError == [ ok |-> FALSE ]

JsonOk(x, next) == [ ok |-> TRUE, v |-> x, next |-> next ]

At(str, i) == IF i \in DOMAIN str THEN str[i] ELSE "EOF"

RECURSIVE SkipWs(_, _)
SkipWs(str, i) == IF At(str, i) = " " THEN SkipWs(str, i + 1) ELSE i

\* the string that starts after an opening quote at i - 1
RECURSIVE ScanString(_, _, _)
ScanString(str, i, acc) ==
    IF i > Len(str) \/ str[i] = NUL THEN JsonError
    ELSE IF str[i] = "\"" THEN JsonOk(PyStr(acc), i + 1)
    ELSE IF str[i] = "\\" THEN
        IF At(str, i + 1) \in { "\"", "\\" }
        THEN ScanString(str, i + 2, Append(acc, str[i + 1]))
        ELSE JsonError
    ELSE ScanString(str, i + 1, Append(acc, str[i]))

RECURSIVE ScanDigits(_, _, _)
ScanDigits(str, i, acc) ==
    IF At(str, i) \in Digits
    THEN ScanDigits(str, i + 1, acc * 10 + DigitValue(str[i]))
    ELSE JsonOk(PyInt(acc), i)

\* an integer: -? (0 | [1-9][0-9]*)
ScanNumber(str, i) ==
    LET neg   == At(str, i) = "-"
        first == IF neg THEN i + 1 ELSE i
    IN  IF At(str, first) \notin Digits THEN JsonError
        ELSE LET n == IF str[first] = "0" THEN JsonOk(PyInt(0), first + 1)
                      ELSE ScanDigits(str, first, 0)
             IN  IF neg THEN JsonOk(PyInt(0 - n.v.v), n.next) ELSE n

ScanScalar(str, i) ==
    IF At(str, i) = "\"" THEN ScanString(str, i + 1, << >>)
    ELSE IF At(str, i) \in Digits \cup { "-" } THEN ScanNumber(str, i)
    ELSE JsonError

\* the members of an object from position i on; a repeated key keeps the last value
RECURSIVE ScanMembers(_, _, _)
ScanMembers(str, i, acc) ==
    LET k == SkipWs(str, i)
    IN  IF At(str, k) # "\"" THEN JsonError
        ELSE LET key == ScanString(str, k + 1, << >>)
             IN  IF ~key.ok THEN JsonError
                 ELSE LET c == SkipWs(str, key.next)
                      IN  IF At(str, c) # ":" THEN JsonError
                          ELSE LET val == ScanScalar(str, SkipWs(str, c + 1))
                               IN  IF ~val.ok THEN JsonError
                                   ELSE LET e    == SkipWs(str, val.next)
                                            acc2 == DictSet(acc, key.v.v, val.v)
                                        IN  IF At(str, e) = "," THEN ScanMembers(str, e + 1, acc2)
                                            ELSE IF At(str, e) = "}" THEN JsonOk(PyDict(acc2), e + 1)
                                            ELSE JsonError

ScanValue(str, i) ==
    IF At(str, i) = "{" THEN
        IF At(str, SkipWs(str, i + 1)) = "}"
        THEN JsonOk(PyDict(<< >>), SkipWs(str, i + 1) + 1)
        ELSE ScanMembers(str, i + 1, << >>)
    ELSE ScanScalar(str, i)

\* json.loads(bytes): the bytes are decoded as text, then one value is read
json_loads(bytes) ==
    IF ~IsText(bytes) THEN JsonError
    ELSE LET str == Decode(bytes)
             x   == ScanValue(str, SkipWs(str, 1))
         IN  IF x.ok /\ SkipWs(str, x.next) = Len(str) + 1 THEN x ELSE JsonError

(***************************************************************************)
(* hmac.new(key, msg, hashlib.sha256).digest().  SHA-256 is taken to be    *)
(* collision-free: a digest is represented by the input it is computed     *)
(* from, so two digests are equal exactly when their inputs are.  HMAC     *)
(* pads a key of at most one block with zero bytes to the block size; the  *)
(* secrets of the model are at most one block long.                        *)
(***************************************************************************)
PadKey(key) == key \o Repeat(0, HmacBlock - Len(key))

\* a digest that leaves the key out
hmac_sha256_Unkeyed(key, msg) == msg

hmac_sha256(key, msg) == PadKey(key) \o msg

\* a comparison that accepts every signature
compare_digest_Skipped(a, b) == TRUE

\* hmac.compare_digest on two ASCII strings
compare_digest(a, b) == a = b

(***************************************************************************)
(* The clock: time.time() is now / TicksPerSecond seconds.                 *)
(***************************************************************************)
\* int(time.time())
IntTime(now) == now \div TicksPerSecond

\* the comparison the other way round
BeforeTime_Flipped(x, now) == x * TicksPerSecond > now

\* a comparison that also holds at the instant x
BeforeTime_Inclusive(x, now) == x * TicksPerSecond <= now

\* x < time.time() for an integer x
BeforeTime(x, now) == x * TicksPerSecond < now

(***************************************************************************)
(* utils/auth.py                                                           *)
(***************************************************************************)
KeyIat == << "i", "a", "t" >>
KeyJti == << "j", "t", "i" >>
KeySub == << "s", "u", "b" >>
KeyExp == << "e", "x", "p" >>

\* payload_b64 / signature_b64: urlsafe_b64encode(...).decode('utf-8').rstrip('=')
B64NoPad(bytes) == rstrip(urlsafe_b64encode(bytes), "=")

Sign(secret_key, payload_b64) ==
    B64NoPad(hmac_sha256(Encode(secret_key.v), Encode(payload_b64)))

\* a payload in which the derived claims are written after additional_data
Payload_DerivedLast(user_id, expiry_seconds, additional_data, now, jti) ==
    LET p0 == IF Truthy(additional_data) THEN additional_data.v ELSE << >>
        p1 == DictSet(DictSet(p0, KeyIat, PyInt(IntTime(now))), KeyJti, PyStr(jti))
        p2 == IF Truthy(user_id) THEN DictSet(p1, KeySub, user_id) ELSE p1
    IN  IF Truthy(expiry_seconds)
        THEN DictSet(p2, KeyExp, PyInt(IntTime(now) + expiry_seconds.v))
        ELSE p2

\* the payload dict generate_token builds
Payload(user_id, expiry_seconds, additional_data, now, jti) ==
    LET p0 == << << KeyIat, PyInt(IntTime(now)) >>, << KeyJti, PyStr(jti) >> >>
        p1 == IF Truthy(user_id) THEN DictSet(p0, KeySub, user_id) ELSE p0
        p2 == IF Truthy(expiry_seconds)
              THEN DictSet(p1, KeyExp, PyInt(IntTime(now) + expiry_seconds.v))
              ELSE p1
    IN  IF Truthy(additional_data) THEN DictUpdate(p2, additional_data.v) ELSE p2

ValueError == [ ok |-> FALSE, error |-> "ValueError" ]

\* generate_token at clock value now, with jti the value of secrets.token_hex(16)
generate_token(secret_key, user_id, expiry_seconds, additional_data, now, jti) ==
    IF ~Truthy(secret_key) THEN ValueError
    ELSE LET payload     == Payload(user_id, expiry_seconds, additional_data, now, jti)
             payload_b64 == B64NoPad(Encode(json_dumps(PyDict(payload))))
         IN  [ ok |-> TRUE,
               token |-> payload_b64 \o << "." >> \o Sign(secret_key, payload_b64) ]

\* str.split(sep)
RECURSIVE split(_, _)
split(str, sep) ==
    IF \E i \in DOMAIN str : str[i] = sep
    THEN LET i == CHOOSE j \in DOMAIN str : str[j] = sep /\ \A k \in 1..(j - 1) : str[k] # sep
         IN  << SubSeq(str, 1, i - 1) >> \o split(SubSeq(str, i + 1, Len(str)), sep)
    ELSE << str >>

\* a in b for two strings
Contains(b, a) ==
    \E i \in 0..(Len(b) - Len(a)) : SubSeq(b, i + 1, i + Len(a)) = a

Invalid == [ valid |-> FALSE, payload |-> PyNone ]

\* an expiry test that never finds a token expired and never raises
ExpiredCheck_Unchecked(payload, now) == "False"

\* "exp" in payload and payload["exp"] < time.time(): "True", "False" or "TypeError"
ExpiredCheck(payload, now) ==
    CASE payload.t = "obj" ->
            IF ~DictHas(payload.v, KeyExp) THEN "False"
            ELSE IF DictGet(payload.v, KeyExp).t # "int" THEN "TypeError"
            ELSE IF BeforeTime(DictGet(payload.v, KeyExp).v, now) THEN "True"
            ELSE "False"
      [] payload.t = "str" ->
            IF Contains(payload.v, KeyExp) THEN "TypeError" ELSE "False"
      [] OTHER -> "TypeError"

\* a padding that ignores the length: no "=" is restored
Padding_None(payload_b64) == << >>

\* padding = '=' * (4 - len(payload_b64) % 4)
Padding(payload_b64) == Repeat("=", 4 - (Len(payload_b64) % 4))

\* validate_token at clock value now; any exception is caught and gives (False, None)
validate_token(token, secret_key, now) ==
    IF ~Truthy(token) \/ ~Truthy(secret_key) THEN Invalid
    ELSE LET parts == split(token.v, ".")
         IN  IF Len(parts) # 2 THEN Invalid
             ELSE LET payload_b64   == parts[1]
                      signature_b64 == parts[2]
                      expected      == Sign(secret_key, payload_b64)
                  IN  IF ~compare_digest(signature_b64, expected) THEN Invalid
                      ELSE LET padding == Padding(payload_b64)
                               decoded == urlsafe_b64decode(payload_b64 \o padding)
                           IN  IF ~decoded.ok THEN Invalid
                               ELSE LET loaded == json_loads(decoded.bytes)
                                    IN  IF ~loaded.ok THEN Invalid
                                        ELSE IF ExpiredCheck(loaded.v, now) # "False" THEN Invalid
                                        ELSE [ valid |-> TRUE, payload |-> loaded.v ]

\* a prefix test that every string passes
startswith_Always(str, prefix) == TRUE

\* str.startswith(prefix)
startswith(str, prefix) ==
    Len(str) >= Len(prefix) /\ SubSeq(str, 1, Len(prefix)) = prefix

\* str.find(sub): the first position where sub starts in str, 0 if none
find(str, sub) ==
    LET hits == { i \in 1..(Len(str) - Len(sub) + 1) : SubSeq(str, i, i + Len(sub) - 1) = sub }
    IN  IF hits = { } THEN 0 ELSE CHOOSE i \in hits : \A j \in hits : i <= j

\* str.replace(old, "", 1)
removeFirst(str, old) ==
    IF find(str, old) = 0 THEN str
    ELSE SubSeq(str, 1, find(str, old) - 1)
         \o SubSeq(str, find(str, old) + Len(old), Len(str))

\* str.replace(old, ""): every occurrence, left to right, without overlap
RECURSIVE remove(_, _)
remove(str, old) ==
    IF find(str, old) = 0 THEN str
    ELSE SubSeq(str, 1, find(str, old) - 1)
         \o remove(SubSeq(str, find(str, old) + Len(old), Len(str)), old)

Bearer ==
    << "B", "e", "a", "r", "e", "r", " " >>

\* an extraction that returns the header with its prefix
extract_token_from_header_Unstripped(auth_header) ==
    IF ~Truthy(auth_header) \/ ~startswith(auth_header.v, Bearer) THEN PyNone
    ELSE auth_header

\* extract_token_from_header(auth_header)
extract_token_from_header(auth_header) ==
    IF ~Truthy(auth_header) \/ ~startswith(auth_header.v, Bearer) THEN PyNone
    ELSE PyStr(remove(auth_header.v, Bearer))

Authorization ==
    << "A", "u", "t", "h", "o", "r", "i", "z", "a", "t", "i", "o", "n" >>

\* str.lower()
lower(str) ==
    [ i \in DOMAIN str |-> IF str[i] # NUL /\ Ord(str[i]) \in 65..90
                           THEN Chr(Ord(str[i]) + 32) ELSE str[i] ]

\* headers.get(name): headers is a dict (keys compared as they are) or a
\* Starlette Headers object (keys compared without regard to case); items is
\* its sequence of <<name, value>> pairs
HeadersGet(headers, name) ==
    LET same(a, b) == IF headers.kind = "dict" THEN a = b ELSE lower(a) = lower(b)
        hits == { i \in DOMAIN headers.items : same(headers.items[i][1], name) }
    IN  IF hits = { } THEN PyNone
        ELSE PyStr(headers.items[CHOOSE i \in hits : \A j \in hits : i <= j][2])

\* get_token_from_request(request)
get_token_from_request(req) ==
    LET first       == HeadersGet(req.headers, Authorization)
        auth_header == IF ~Truthy(first) THEN HeadersGet(req.headers, Authorization)
                       ELSE first
    IN  extract_token_from_header(auth_header)

(***************************************************************************)
(* Configuration loading.  An environment flag is TRUE when the variable,  *)
(* lowercased, is 'true'.  config is config.yaml: readable is FALSE when   *)
(* the file is missing; enabled ("absent", "true" or "false") and          *)
(* secret_key (None or a str) are the entries of its auth section.         *)
(***************************************************************************)
ConfigRead(config) == config.readable

\* main.py: auth_secret_key after the config.yaml block
MainSecretLoaded(AUTH_SECRET_KEY, other_env_set, config) ==
    IF /\ ~other_env_set \/ ~Truthy(AUTH_SECRET_KEY)
       /\ ConfigRead(config)
       /\ ~Truthy(AUTH_SECRET_KEY)
       /\ Truthy(config.secret_key)
    THEN config.secret_key
    ELSE AUTH_SECRET_KEY

\* main.py: auth_enabled after the config.yaml block
MainEnabledLoaded(BEHIND_AUTH_PROXY, AUTH_ENABLED, AUTH_SECRET_KEY, other_env_set, config) ==
    LET auth_enabled == AUTH_ENABLED /\ ~BEHIND_AUTH_PROXY
    IN  IF /\ ~other_env_set \/ ~Truthy(AUTH_SECRET_KEY)
           /\ ConfigRead(config)
           /\ ~auth_enabled
           /\ config.enabled # "absent"
        THEN config.enabled = "true"
        ELSE auth_enabled

\* a fixed default key in place of the random one
SessionSecret_Default(auth_enabled, auth_secret_key, random) ==
    IF auth_enabled /\ ~Truthy(auth_secret_key) THEN PyStr(<< "k" >>) ELSE auth_secret_key

\* main.py: a random secret key is generated if none is provided and auth is
\* enabled; random is the value of secrets.token_hex(32)
SessionSecret(auth_enabled, auth_secret_key, random) ==
    IF auth_enabled /\ ~Truthy(auth_secret_key) THEN random ELSE auth_secret_key

\* main.py, module level: the configuration the server runs with
MainConfig(BEHIND_AUTH_PROXY, AUTH_ENABLED, AUTH_SECRET_KEY, other_env_set, config, random) ==
    LET loaded  == MainSecretLoaded(AUTH_SECRET_KEY, other_env_set, config)
        enabled == MainEnabledLoaded(BEHIND_AUTH_PROXY, AUTH_ENABLED, AUTH_SECRET_KEY,
                                     other_env_set, config)
    IN  [ program           |-> "main",
          behind_auth_proxy |-> BEHIND_AUTH_PROXY,
          auth_enabled      |-> enabled,
          auth_secret_key   |-> SessionSecret(enabled, loaded, random),
          configured_secret |-> loaded ]

\* auth_proxy.py, module level: the configuration the proxy runs with
ProxyConfig(AUTH_ENABLED, AUTH_SECRET_KEY, config) ==
    LET read    == ~Truthy(AUTH_SECRET_KEY) /\ ConfigRead(config)
        loaded  == IF read /\ Truthy(config.secret_key) THEN config.secret_key
                   ELSE AUTH_SECRET_KEY
        enabled == IF read /\ ~AUTH_ENABLED /\ config.enabled # "absent"
                   THEN config.enabled = "true"
                   ELSE AUTH_ENABLED
    IN  [ program           |-> "auth_proxy",
          behind_auth_proxy |-> FALSE,
          auth_enabled      |-> enabled,
          auth_secret_key   |-> loaded,
          configured_secret |-> loaded ]

(***************************************************************************)
(* The gates.  A decision is [allowed, status, field, text]: a denial is    *)
(* answered with the status and a JSON body {field: text}.                  *)
(***************************************************************************)
InfoPath ==
    << "/", "m", "c", "p", "/", "i", "n", "f", "o" >>

MissingBearerToken ==
    << "U", "n", "a", "u", "t", "h", "o", "r", "i", "z", "e", "d", ":", " ",
       "M", "i", "s", "s", "i", "n", "g", " ", "B", "e", "a", "r", "e", "r",
       " ", "T", "o", "k", "e", "n" >>

InvalidBearerToken ==
    << "U", "n", "a", "u", "t", "h", "o", "r", "i", "z", "e", "d", ":", " ",
       "I", "n", "v", "a", "l", "i", "d", " ", "B", "e", "a", "r", "e", "r",
       " ", "T", "o", "k", "e", "n" >>

Allow == [ allowed |-> TRUE, status |-> 0, field |-> "", text |-> << >> ]

\* JSONResponse(status_code=status, content={"error": text})
JSONResponse(status, text) ==
    [ allowed |-> FALSE, status |-> status, field |-> "error", text |-> text ]

\* HTTPException(status_code=status, detail=text), rendered by FastAPI
HTTPException(status, text) ==
    [ allowed |-> FALSE, status |-> status, field |-> "detail", text |-> text ]

\* a gate that goes to the token without looking at the enabled flag
authenticate_request_FlagIgnored(cfg, req, clock) ==
    IF req.path = InfoPath THEN Allow
    ELSE LET tok == get_token_from_request(req)
         IN  IF ~Truthy(tok) THEN JSONResponse(401, MissingBearerToken)
             ELSE IF ~validate_token(tok, cfg.auth_secret_key, clock).valid
                  THEN JSONResponse(401, InvalidBearerToken)
             ELSE Allow

\* main.py: authenticate_request(request)
authenticate_request(cfg, req, clock) ==
    IF ~cfg.auth_enabled THEN Allow
    ELSE IF req.path = InfoPath THEN Allow
    ELSE LET tok == get_token_from_request(req)
         IN  IF ~Truthy(tok) THEN JSONResponse(401, MissingBearerToken)
             ELSE IF ~validate_token(tok, cfg.auth_secret_key, clock).valid
                  THEN JSONResponse(401, InvalidBearerToken)
             ELSE Allow

\* main.py: AuthMiddleware.dispatch(request, call_next)
AuthMiddleware_dispatch(cfg, req, clock) ==
    IF req.path = InfoPath THEN Allow
    ELSE LET tok == get_token_from_request(req)
         IN  IF ~Truthy(tok) THEN JSONResponse(401, MissingBearerToken)
             ELSE IF ~validate_token(tok, cfg.auth_secret_key, clock).valid
                  THEN JSONResponse(401, InvalidBearerToken)
             ELSE Allow

\* auth_proxy.py: authenticate(request)
authenticate(cfg, req, clock) ==
    IF ~cfg.auth_enabled THEN Allow
    ELSE IF req.path = InfoPath THEN Allow
    ELSE LET tok == get_token_from_request(req)
         IN  IF ~Truthy(tok) THEN HTTPException(401, MissingBearerToken)
             ELSE LET bare == IF startswith(tok.v, Bearer)
                              THEN PyStr(removeFirst(tok.v, Bearer)) ELSE tok
                  IN  IF ~validate_token(bare, cfg.auth_secret_key, clock).valid
                      THEN HTTPException(401, InvalidBearerToken)
                      ELSE Allow

\* utils/auth_transport.py: AuthenticatedSseTransport.handle_request(request)
handle_request(secret_key, req, clock) ==
    LET tok == get_token_from_request(req)
    IN  IF ~Truthy(tok) THEN JSONResponse(401, MissingBearerToken)
        ELSE IF ~validate_token(tok, secret_key, clock).valid
             THEN JSONResponse(401, InvalidBearerToken)
        ELSE Allow

(***************************************************************************)
(* State.                                                                  *)
(***************************************************************************)
VARIABLES
    now,      \* the system clock, in ticks
    issued,   \* the generate_token call that produced the client's token
    token,    \* the token the client holds (a str), or None
    tamper,   \* the position and character of the client's edit of the token
    checked,  \* the last validate_token call and what it returned
    server,   \* the running program and the configuration it loaded
    request,  \* the last request a gate decided
    response, \* the decision of that gate
    extracted, \* the last get_token_from_request call and what it returned
    inflight, \* per client, the request authenticate_request is working on
    proxied,  \* the last request the auth proxy handled, with its log entries
    transport \* the transport main.py is serving and the gate it installed

vars == << now, issued, token, tamper, checked, server, request, response,
           extracted, inflight, proxied, transport >>

gateVars == << server, request, response, extracted, inflight, proxied, transport >>

(***************************************************************************)
(* Inputs.                                                                 *)
(***************************************************************************)
Abc ==
    << "a", "b", "c" >>

\* shared secrets: "k", "k" followed by NUL, and "s"
Secrets == { PyStr(<< "k" >>), PyStr(<< "k", NUL >>), PyStr(<< "s" >>) }

\* a secret that was not configured
Unset == { PyNone, PyStr(<< >>) }

UserIds == { PyNone, PyStr(<< >>), PyStr(<< "a", "l" >>) }

Expiries == { PyNone, PyInt(0), PyInt(-1), PyInt(1) }

KeyRole == << "r", "o", "l", "e" >>

AdditionalData ==
    { PyNone,
      PyDict(<< << KeyRole, PyStr(<< "x" >>) >> >>),
      PyDict(<< << KeySub, PyStr(<< "b", "o" >>) >>, << KeyExp, PyInt(0) >> >>),
      PyDict(<< << KeyExp, PyInt(9) >> >>),
      PyDict(<< << KeyExp, PyStr(<< "x" >>) >> >>),
      PyDict(<< << KeyIat, PyInt(7) >>, << KeyJti, PyStr(<< "z" >>) >> >>) }

\* values of secrets.token_hex: JtiLen hexadecimal characters
Jtis == { Repeat("a", JtiLen), Repeat("0", JtiLen) }

NoCall == [ call |-> "none" ]

\* the clients that send requests at the same time
Clients == { "c1", "c2" }

\* a client with no request under way
Idle == [ pc |-> "idle" ]

(***************************************************************************)
(* Token generation and validation by a client holding one token.          *)
(***************************************************************************)
Init ==
    /\ now = 0
    /\ issued = NoCall
    /\ token = PyNone
    /\ tamper = NoCall
    /\ checked = NoCall
    /\ server = NoCall
    /\ request = NoCall
    /\ response = NoCall
    /\ extracted = NoCall
    /\ inflight = [ c \in Clients |-> Idle ]
    /\ proxied = NoCall
    /\ transport = NoCall

\* the clock advances
Tick ==
    /\ now < MaxClock
    /\ now' = now + 1
    /\ UNCHANGED << issued, token, tamper, checked, gateVars >>

\* token = generate_token(secret_key, user_id, expiry_seconds, additional_data)
Generate(secret_key, user_id, expiry_seconds, additional_data, jti) ==
    LET r == generate_token(secret_key, user_id, expiry_seconds, additional_data, now, jti)
    IN  /\ issued = NoCall
        /\ issued' = [ call |-> "generate_token", secret_key |-> secret_key,
                        user_id |-> user_id, expiry_seconds |-> expiry_seconds,
                        additional_data |-> additional_data, at |-> now, jti |-> jti,
                        ok |-> r.ok, error |-> IF r.ok THEN "" ELSE r.error ]
        /\ token' = IF r.ok THEN PyStr(r.token) ELSE PyNone
        /\ UNCHANGED << now, tamper, checked, gateVars >>

\* validate_token(token, secret_key)
Validate(secret_key) ==
    /\ token # PyNone
    /\ checked' = [ call |-> "validate_token", token |-> token, secret_key |-> secret_key,
                     at |-> now, result |-> validate_token(token, secret_key, now) ]
    /\ UNCHANGED << now, issued, token, tamper, gateVars >>

(***************************************************************************)
(* generate_token.py, the command line tool.  args is the parsed command   *)
(* line (secret, expiry, user, data), env the environment after load_dotenv *)
(* (AUTH_SECRET_KEY, AUTH_TOKEN_EXPIRY), config the file config.yaml:       *)
(* readable is FALSE when it is missing or cannot be loaded.                *)
(***************************************************************************)
DefaultExpiry == 86400

\* int(str) of a str of decimal digits; None stands for ValueError
int(str) ==
    IF str # << >> /\ \A i \in DOMAIN str : str[i] \in Digits
    THEN ScanDigits(str, 1, 0).v
    ELSE PyNone

\* secret_key after the command line, the environment and config.yaml
CliSecret(args, env, config) ==
    LET fromEnv == IF ~Truthy(args.secret) THEN env.AUTH_SECRET_KEY ELSE args.secret
    IN  IF ~Truthy(fromEnv) /\ config.readable /\ Truthy(config.secret_key)
        THEN config.secret_key
        ELSE fromEnv

\* a resolution that takes --expiry 0 as an expiry of zero seconds
CliExpiry_ZeroKept(args, env, config) ==
    LET fromEnv == IF args.expiry = PyNone /\ Truthy(env.AUTH_TOKEN_EXPIRY)
                      /\ int(env.AUTH_TOKEN_EXPIRY.v) # PyNone
                   THEN int(env.AUTH_TOKEN_EXPIRY.v)
                   ELSE args.expiry
        fromCfg == IF fromEnv = PyNone /\ config.readable /\ Truthy(config.token_expiry)
                   THEN config.token_expiry
                   ELSE fromEnv
    IN  IF fromCfg = PyNone THEN PyInt(DefaultExpiry) ELSE fromCfg

\* expiry after the command line, the environment, config.yaml and the default
CliExpiry(args, env, config) ==
    LET fromEnv == IF ~Truthy(args.expiry) /\ Truthy(env.AUTH_TOKEN_EXPIRY)
                      /\ int(env.AUTH_TOKEN_EXPIRY.v) # PyNone
                   THEN int(env.AUTH_TOKEN_EXPIRY.v)
                   ELSE args.expiry
        fromCfg == IF ~Truthy(fromEnv) /\ config.readable /\ Truthy(config.token_expiry)
                   THEN config.token_expiry
                   ELSE fromEnv
    IN  IF ~Truthy(fromCfg) THEN PyInt(DefaultExpiry) ELSE fromCfg

\* sys.exit(1): nothing is printed on standard output
Exit1 == [ exit |-> 1, ok |-> FALSE ]

\* a tool that signs with the key "k" when no secret is resolved
main_DefaultSecret(args, env, config, clock, jti) ==
    LET resolved   == CliSecret(args, env, config)
        secret_key == IF ~Truthy(resolved) THEN PyStr(<< "k" >>) ELSE resolved
        expiry     == CliExpiry(args, env, config)
        data       == IF Truthy(args.data) THEN json_loads(Encode(args.data.v))
                      ELSE JsonOk(PyNone, 0)
    IN  IF ~data.ok THEN Exit1
        ELSE IF Truthy(data.v) /\ data.v.t # "obj" THEN Exit1
        ELSE LET r == generate_token(secret_key, args.user, expiry, data.v, clock, jti)
             IN  IF ~r.ok THEN Exit1
                 ELSE [ exit |-> 0, ok |-> TRUE, token |-> r.token,
                        secret_key |-> secret_key, expiry |-> expiry,
                        additional_data |-> data.v ]

\* main(): the exit status and, on success, the token printed
main(args, env, config, clock, jti) ==
    LET secret_key == CliSecret(args, env, config)
        expiry     == CliExpiry(args, env, config)
        data       == IF Truthy(args.data) THEN json_loads(Encode(args.data.v))
                      ELSE JsonOk(PyNone, 0)
    IN  IF ~Truthy(secret_key) THEN Exit1
        ELSE IF ~data.ok THEN Exit1
        ELSE IF Truthy(data.v) /\ data.v.t # "obj" THEN Exit1
        ELSE LET r == generate_token(secret_key, args.user, expiry, data.v, clock, jti)
             IN  IF ~r.ok THEN Exit1
                 ELSE [ exit |-> 0, ok |-> TRUE, token |-> r.token,
                        secret_key |-> secret_key, expiry |-> expiry,
                        additional_data |-> data.v ]

RoleJson ==
    << "{", "\"", "r", "o", "l", "e", "\"", ":", " ", "\"", "x", "\"", "}" >>

CliArgs ==
    [ secret : { PyNone, PyStr(<< >>), PyStr(<< "k" >>) },
      expiry : { PyNone, PyInt(1) },
      user   : { PyNone, PyStr(<< "a", "l" >>) },
      data   : { PyNone, PyStr(RoleJson), PyStr(<< "x" >>), PyStr(<< "7" >>) } ]

CliEnv ==
    [ AUTH_SECRET_KEY   : { PyNone, PyStr(<< "s" >>) },
      AUTH_TOKEN_EXPIRY : { PyNone, PyStr(<< "1" >>), PyStr(<< "x" >>) } ]

CliConfigs ==
    { [ readable |-> FALSE, secret_key |-> PyNone, token_expiry |-> PyNone ],
      [ readable |-> TRUE, secret_key |-> PyNone, token_expiry |-> PyInt(1) ],
      [ readable |-> TRUE, secret_key |-> PyStr(<< "s" >>), token_expiry |-> PyNone ] }

\* python generate_token.py [--secret ..] [--expiry ..] [--user ..] [--data ..]
RunCli(args, env, config, jti) ==
    LET r == main(args, env, config, now, jti)
    IN  /\ issued = NoCall
        /\ issued' = IF r.ok
                     THEN [ call |-> "main", args |-> args, env |-> env, config |-> config,
                            secret_key |-> r.secret_key, user_id |-> args.user,
                            expiry_seconds |-> r.expiry,
                            additional_data |-> r.additional_data, at |-> now,
                            jti |-> jti, ok |-> TRUE, exit |-> 0 ]
                     ELSE [ call |-> "main", args |-> args, env |-> env, config |-> config,
                            at |-> now, ok |-> FALSE, exit |-> r.exit ]
        /\ token' = IF r.ok THEN PyStr(r.token) ELSE PyNone
        /\ UNCHANGED << now, tamper, checked, gateVars >>

Next ==
    \/ Tick
    \/ \E args \in CliArgs, env \in CliEnv, config \in CliConfigs :
          RunCli(args, env, config, Repeat("a", JtiLen))
    \/ \E s \in Secrets \cup Unset, u \in UserIds, e \in Expiries,
          a \in AdditionalData, j \in Jtis : Generate(s, u, e, a, j)
    \/ \E s \in Secrets \cup { PyStr(<< >>) } : Validate(s)

Spec == Init /\ [][Next]_vars

(***************************************************************************)
(* Tokens with and without an expiry: generate_token called with each      *)
(* expiry_seconds, and the command line tool called with --expiry 0, with  *)
(* another --expiry and without one.                                       *)
(***************************************************************************)
ExpiryArgs ==
    [ secret : { PyNone, PyStr(<< "k" >>) },
      expiry : { PyNone, PyInt(0), PyInt(1) },
      user   : { PyNone },
      data   : { PyNone } ]

ExpiryEnv ==
    [ AUTH_SECRET_KEY   : { PyNone, PyStr(<< "k" >>) },
      AUTH_TOKEN_EXPIRY : { PyNone, PyStr(<< "0" >>), PyStr(<< "1" >>), PyStr(<< "x" >>) } ]

NextExpiry ==
    \/ Tick
    \/ \E args \in ExpiryArgs, env \in ExpiryEnv, config \in CliConfigs :
          RunCli(args, env, config, Repeat("a", JtiLen))
    \/ \E e \in Expiries,
          a \in { PyNone, PyDict(<< << KeyRole, PyStr(<< "x" >>) >> >>),
                  PyDict(<< << KeyExp, PyInt(9) >> >>) } :
          Generate(PyStr(<< "k" >>), PyNone, e, a, Repeat("a", JtiLen))
    \/ Validate(PyStr(<< "k" >>))

SpecExpiry == Init /\ [][NextExpiry]_vars

(***************************************************************************)
(* A client that presents arbitrary strings to validate_token, and a holder *)
(* of the secret who signs arbitrary payload segments with it.              *)
(***************************************************************************)
\* strings that are not of the form payload.signature
PresentedTokens ==
    { << >>, Abc, << "a", ".", "b", ".", "c" >>, << "." >> }

\* payload texts: not JSON, the JSON strings "exp" and "ab", the number 7,
\* the objects {}, {"exp": 0} and {"exp": "x"}
PayloadTexts ==
    [ notjson   |-> << "x" >>,
      expstring |-> << "\"", "e", "x", "p", "\"" >>,
      string    |-> << "\"", "a", "b", "\"" >>,
      number    |-> << "7" >>,
      object    |-> << "{", "}" >>,
      exp0      |-> << "{", "\"", "e", "x", "p", "\"", ":", " ", "0", "}" >>,
      exptext   |-> << "{", "\"", "e", "x", "p", "\"", ":", " ", "\"", "x", "\"", "}" >> ]

\* payload segments: the base64 of the payload texts, a segment of
\* characters outside the base64 alphabet, a lone base64 digit, the empty
\* segment
Segments ==
    [ kind \in DOMAIN PayloadTexts |-> B64NoPad(Encode(PayloadTexts[kind])) ]
    @@ [ notbase64 |-> << "!", "!" >>, lonedigit |-> << "A" >>, empty |-> << >> ]

\* the client holds a string that was never signed
Present(text) ==
    /\ issued = NoCall
    /\ issued' = [ call |-> "present", at |-> now ]
    /\ token' = PyStr(text)
    /\ UNCHANGED << now, tamper, checked, gateVars >>

\* the holder of secret_key signs a payload segment as generate_token does
Craft(secret_key, kind) ==
    /\ issued = NoCall
    /\ issued' = [ call |-> "craft", kind |-> kind, secret_key |-> secret_key, at |-> now ]
    /\ token' = PyStr(Segments[kind] \o << "." >> \o Sign(secret_key, Segments[kind]))
    /\ UNCHANGED << now, tamper, checked, gateVars >>

NextCraft ==
    \/ Tick
    \/ \E s \in { PyStr(<< "k" >>) }, e \in { PyNone, PyInt(1), PyInt(-1) } :
          Generate(s, PyNone, e, PyNone, Repeat("a", JtiLen))
    \/ \E text \in PresentedTokens : Present(text)
    \/ \E s \in { PyStr(<< "k" >>), PyStr(<< "s" >>) }, kind \in DOMAIN Segments : Craft(s, kind)
    \/ \E s \in Secrets \cup Unset : Validate(s)

SpecCraft == Init /\ [][NextCraft]_vars

(***************************************************************************)
(* A client that edits one character of its token before presenting it.    *)
(***************************************************************************)
\* replacement characters: two base64 digits, the separator, the padding
\* character and a character outside the base64 alphabet
TamperChars == { "A", "B", ".", "=", "!" }

\* position of the first sep in str
Find(str, sep) == CHOOSE i \in DOMAIN str : str[i] = sep /\ \A k \in 1..(i - 1) : str[k] # sep

\* the client replaces character pos of its token by ch
Tamper(pos, ch) ==
    /\ token # PyNone
    /\ tamper = NoCall
    /\ checked = NoCall
    /\ pos \in DOMAIN token.v
    /\ ch # token.v[pos]
    /\ tamper' = [ call |-> "tamper", pos |-> pos, ch |-> ch, dot |-> Find(token.v, ".") ]
    /\ token' = PyStr([ token.v EXCEPT ![pos] = ch ])
    /\ UNCHANGED << now, issued, checked, gateVars >>

\* the positions of the client's token
TokenPositions == IF token = PyNone THEN { } ELSE DOMAIN token.v

NextTamper ==
    \/ \E s \in { PyStr(<< "k" >>), PyStr(<< "s" >>) },
          u \in { PyNone, PyStr(<< "a", "l" >>) },
          e \in { PyNone, PyInt(1) } : Generate(s, u, e, PyNone, Repeat("a", JtiLen))
    \/ \E pos \in TokenPositions, ch \in TamperChars : Tamper(pos, ch)
    \/ \E s \in Secrets : Validate(s)

SpecTamper == Init /\ [][NextTamper]_vars

(***************************************************************************)
(* A server or proxy that loads its configuration and decides requests of  *)
(* a client holding one token.                                             *)
(***************************************************************************)
EnvSecrets == { PyNone, PyStr(<< >>), PyStr(<< "k" >>) }

ConfigFiles ==
    { [ readable |-> FALSE, enabled |-> "absent", secret_key |-> PyNone ] }
    \cup [ readable : { TRUE }, enabled : { "absent", "true", "false" },
           secret_key : { PyNone, PyStr(<< "s" >>) } ]

\* values of secrets.token_hex(32): hexadecimal strings no client knows
RandomSecrets == { PyStr(<< "a", "f" >>), PyStr(<< "0", "9" >>) }

\* python main.py
StartMain(BEHIND_AUTH_PROXY, AUTH_ENABLED, AUTH_SECRET_KEY, other_env_set, config, random) ==
    /\ server = NoCall
    /\ server' = MainConfig(BEHIND_AUTH_PROXY, AUTH_ENABLED, AUTH_SECRET_KEY,
                            other_env_set, config, random)
    /\ UNCHANGED << now, issued, token, tamper, checked, request, response,
                    extracted, inflight, proxied, transport >>

\* python auth_proxy.py
StartProxy(AUTH_ENABLED, AUTH_SECRET_KEY, config) ==
    /\ server = NoCall
    /\ server' = ProxyConfig(AUTH_ENABLED, AUTH_SECRET_KEY, config)
    /\ UNCHANGED << now, issued, token, tamper, checked, request, response,
                    extracted, inflight, proxied, transport >>

\* a client signs a payload itself, with any key, the empty one included
Forge(secret_key, user_id, expiry_seconds, jti) ==
    LET payload     == Payload(user_id, expiry_seconds, PyNone, now, jti)
        payload_b64 == B64NoPad(Encode(json_dumps(PyDict(payload))))
    IN  /\ issued = NoCall
        /\ issued' = [ call |-> "forge", secret_key |-> secret_key,
                        user_id |-> user_id, expiry_seconds |-> expiry_seconds,
                        additional_data |-> PyNone, at |-> now, jti |-> jti,
                        ok |-> TRUE ]
        /\ token' = PyStr(payload_b64 \o << "." >> \o Sign(secret_key, payload_b64))
        /\ UNCHANGED << now, tamper, checked, gateVars >>

HealthCheckPath ==
    << "/", "m", "c", "p", "/", "h", "e", "a", "l", "t", "h", "_", "c", "h",
       "e", "c", "k" >>

DocsPath ==
    << "/", "d", "o", "c", "s" >>

OpenApiPath ==
    << "/", "o", "p", "e", "n", "a", "p", "i", ".", "j", "s", "o", "n" >>

ToolPath ==
    << "/", "m", "c", "p", "/", "w", "e", "a", "t", "h", "e", "r", ".", "g",
       "e", "t", "_", "w", "e", "a", "t", "h", "e", "r" >>

\* a path that has the bypass path /mcp/info as a proper prefix
InfoSubPath == InfoPath \o << "/", "x" >>

Paths == { InfoPath, InfoSubPath, HealthCheckPath, DocsPath, OpenApiPath, ToolPath }

Basic ==
    << "B", "a", "s", "i", "c", " ", "x", "y", "z" >>

\* the Authorization header values a client sends: none, the token after
\* "Bearer ", after "Bearer Bearer ", a Basic credential, "Bearer " alone,
\* "Bearer abc" and "bearer abc"
HeaderForms == { "absent", "bearer", "double", "basic", "empty", "abc", "lower" }

HeaderValue(form) ==
    CASE form = "bearer" -> Bearer \o token.v
      [] form = "double" -> Bearer \o Bearer \o token.v
      [] form = "basic"  -> Basic
      [] form = "empty"  -> Bearer
      [] form = "abc"    -> Bearer \o Abc
      [] form = "lower"  -> lower(Bearer) \o Abc

\* request.headers of a Starlette request
Headers(form) ==
    [ kind  |-> "Headers",
      items |-> IF form = "absent" THEN << >>
                ELSE << << Authorization, HeaderValue(form) >> >> ]

\* the gates of the running program: main.py sets up its middleware and its
\* authenticated transport only when auth_enabled
Gates ==
    IF server = NoCall THEN { }
    ELSE IF server.program = "auth_proxy" THEN { "authenticate" }
    ELSE { "authenticate_request" }
         \cup (IF server.auth_enabled
               THEN { "AuthMiddleware.dispatch", "handle_request" } ELSE { })

Decide(gate, req) ==
    CASE gate = "authenticate_request"    -> authenticate_request(server, req, now)
      [] gate = "AuthMiddleware.dispatch" -> AuthMiddleware_dispatch(server, req, now)
      [] gate = "authenticate"            -> authenticate(server, req, now)
      [] gate = "handle_request"          -> handle_request(server.auth_secret_key, req, now)

\* a request reaches a gate, which decides it; credential is the value
\* get_token_from_request returns for it, the gate's local variable token
Request(gate, path, form) ==
    /\ request = NoCall
    /\ gate \in Gates
    /\ form \in { "bearer", "double" } => token # PyNone
    /\ LET req == [ gate |-> gate, path |-> path, form |-> form, at |-> now,
                    headers |-> Headers(form) ]
       IN  /\ request' = [ gate |-> gate, path |-> path, form |-> form, at |-> now,
                            headers |-> Headers(form),
                            credential |-> get_token_from_request(req) ]
           /\ response' = Decide(gate, req)
    /\ UNCHANGED << now, issued, token, tamper, checked, server, extracted, inflight,
                    proxied, transport >>

NextGate ==
    \/ \E behind \in BOOLEAN, enabled \in BOOLEAN, secret \in EnvSecrets,
          other \in BOOLEAN, config \in ConfigFiles, random \in RandomSecrets :
            StartMain(behind, enabled, secret, other, config, random)
    \/ \E enabled \in BOOLEAN, secret \in EnvSecrets, config \in ConfigFiles :
            StartProxy(enabled, secret, config)
    \/ \E s \in { PyStr(<< "k" >>), PyStr(<< "s" >>) }, e \in { PyInt(1), PyInt(-1) } :
            Generate(s, PyStr(<< "a", "l" >>), e, PyNone, Repeat("a", JtiLen))
    \/ Forge(PyStr(<< >>), PyStr(<< "a", "l" >>), PyInt(1), Repeat("a", JtiLen))
    \/ \E gate \in Gates, path \in Paths, form \in HeaderForms : Request(gate, path, form)

SpecGate == Init /\ [][NextGate]_vars

(***************************************************************************)
(* get_token_from_request called on request objects of the shapes it       *)
(* supports: headers a plain dict or a Starlette Headers object, the        *)
(* header stored under a name in any letter case.                           *)
(***************************************************************************)
HeaderNames ==
    { Authorization,
      lower(Authorization),
      << "A", "U", "T", "H", "O", "R", "I", "Z", "A", "T", "I", "O", "N" >> }

HeaderKinds == { "dict", "Headers" }

\* request.headers of the given kind, with the header under the given name
HeadersOf(kind, name, form) ==
    [ kind  |-> kind,
      items |-> IF form = "absent" THEN << >> ELSE << << name, HeaderValue(form) >> >> ]

\* get_token_from_request(request)
Extract(kind, name, form) ==
    /\ extracted = NoCall
    /\ form \in { "bearer", "double" } => token # PyNone
    /\ extracted' = [ call |-> "get_token_from_request", kind |-> kind, name |-> name,
                       form |-> form,
                       result |-> get_token_from_request(
                                      [ headers |-> HeadersOf(kind, name, form) ]) ]
    /\ UNCHANGED << now, issued, token, tamper, checked, server, request, response,
                    inflight, proxied, transport >>

NextExtract ==
    \/ \E s \in { PyStr(<< "k" >>), PyStr(<< "s" >>) }, e \in { PyNone, PyInt(1) } :
          Generate(s, PyNone, e, PyNone, Repeat("a", JtiLen))
    \/ \E kind \in HeaderKinds, name \in HeaderNames, form \in HeaderForms :
          Extract(kind, name, form)

SpecExtract == Init /\ [][NextExtract]_vars

(***************************************************************************)
(* Concurrent requests to main.py.  Each client's request goes through     *)
(* authenticate_request in three steps (the flag and the path, the          *)
(* extraction of the token, its validation) that interleave with the steps  *)
(* of the other clients' requests.                                          *)
(***************************************************************************)
\* the clients whose request authenticate_request is working on
Busy == { c \in Clients : inflight[c].pc \in { "policy", "extract", "validate" } }

\* the client sends a request; overlap records that another client's
\* request is under way at that moment
Receive(c, path, form) ==
    /\ server # NoCall
    /\ inflight[c] = Idle
    /\ form \in { "bearer", "double" } => token # PyNone
    /\ inflight' = [ inflight EXCEPT ![c] =
                       [ pc |-> "policy", path |-> path, form |-> form,
                         headers |-> Headers(form), overlap |-> Busy # { } ] ]
    /\ UNCHANGED << now, issued, token, tamper, checked, server, request, response,
                    extracted, proxied, transport >>

\* authenticate_request up to the extraction: the enabled flag and the
\* bypass path
gate_policy(cfg, req) ==
    IF ~cfg.auth_enabled THEN [ pc |-> "done", response |-> Allow ]
    ELSE IF req.path = InfoPath THEN [ pc |-> "done", response |-> Allow ]
    ELSE [ pc |-> "extract" ]

\* authenticate_request: token = get_token_from_request(request)
gate_extract(req) ==
    LET tok == get_token_from_request(req)
    IN  IF ~Truthy(tok)
        THEN [ pc |-> "done", response |-> JSONResponse(401, MissingBearerToken) ]
        ELSE [ pc |-> "validate", tok |-> tok ]

\* a last step that allows the request without validating the token
gate_validate_Skipped(cfg, tok, clock) ==
    [ pc |-> "done", response |-> Allow ]

\* authenticate_request: is_valid, payload = validate_token(token, auth_secret_key)
gate_validate(cfg, tok, clock) ==
    IF ~validate_token(tok, cfg.auth_secret_key, clock).valid
    THEN [ pc |-> "done", response |-> JSONResponse(401, InvalidBearerToken) ]
    ELSE [ pc |-> "done", response |-> Allow ]

\* the request of a client, as it was received
RequestOf(c) ==
    [ path |-> inflight[c].path, form |-> inflight[c].form,
      headers |-> inflight[c].headers ]

\* one step of authenticate_request on the client's request
Step(c) ==
    /\ inflight[c].pc \in { "policy", "extract", "validate" }
    /\ LET r == CASE inflight[c].pc = "policy"   -> gate_policy(server, RequestOf(c))
                  [] inflight[c].pc = "extract"  -> gate_extract(RequestOf(c))
                  [] inflight[c].pc = "validate" ->
                         gate_validate(server, inflight[c].tok, now)
       IN  inflight' = [ inflight EXCEPT ![c] =
                           IF r.pc = "done"
                           THEN [ pc |-> "done", path |-> inflight[c].path,
                                  form |-> inflight[c].form,
                                  headers |-> inflight[c].headers,
                                  overlap |-> inflight[c].overlap,
                                  at |-> now, response |-> r.response ]
                           ELSE IF r.pc = "validate"
                           THEN [ pc |-> "validate", path |-> inflight[c].path,
                                  form |-> inflight[c].form,
                                  headers |-> inflight[c].headers,
                                  overlap |-> inflight[c].overlap, tok |-> r.tok ]
                           ELSE [ pc |-> "extract", path |-> inflight[c].path,
                                  form |-> inflight[c].form,
                                  headers |-> inflight[c].headers,
                                  overlap |-> inflight[c].overlap ] ]
    /\ UNCHANGED << now, issued, token, tamper, checked, server, request, response,
                    extracted, proxied, transport >>

NextConcurrent ==
    \/ Tick
    \/ \E enabled \in BOOLEAN :
          StartMain(FALSE, enabled, PyStr(<< "k" >>), TRUE,
                    [ readable |-> FALSE, enabled |-> "absent", secret_key |-> PyNone ],
                    PyStr(<< "a", "f" >>))
    \/ \E s \in { PyStr(<< "k" >>), PyStr(<< "s" >>) }, e \in { PyInt(1), PyInt(-1) } :
          Generate(s, PyNone, e, PyNone, Repeat("a", JtiLen))
    \/ \E c \in Clients, path \in { ToolPath, InfoPath },
          form \in { "absent", "bearer", "basic" } : Receive(c, path, form)
    \/ \E c \in Clients : Step(c)

SpecConcurrent == Init /\ [][NextConcurrent]_vars

(***************************************************************************)
(* auth_proxy.py, the routes.  The proxy listens in front of the MCP       *)
(* server at http://localhost:3399.  A request is [method, path, query,    *)
(* body, headers]; an upstream call is [method, url, headers, params,      *)
(* data]; the upstream answers a call with a status or the call raises.    *)
(* A log entry is [level, msg, args]: the text of the f-string with a      *)
(* place holder for each interpolated value, and the values.               *)
(***************************************************************************)
SsePath ==
    << "/", "s", "s", "e" >>

McpPath ==
    << "/", "m", "c", "p" >>

\* http://localhost:3399, the MCP server behind the proxy
UpstreamBase ==
    << "h", "t", "t", "p", ":", "/", "/", "l", "o", "c", "a", "l", "h", "o",
       "s", "t", ":", "3", "3", "9", "9" >>

\* the routes in declaration order: the first whose path and methods match
route(method, path) ==
    IF path = InfoPath /\ method = "GET" THEN "proxy_info"
    ELSE IF path = SsePath /\ method = "GET" THEN "proxy_sse"
    ELSE IF path = McpPath /\ method \in { "GET", "POST" } THEN "proxy_stream"
    ELSE "proxy_all"

\* routes declared without the authenticate dependency
dependencies_None(r) ==
    { }

\* dependencies=[Depends(authenticate)] of the route decorators
dependencies(r) ==
    IF r = "proxy_info" THEN { } ELSE { "authenticate" }

\* token[:20] in the log calls of the gates
TokenLogPrefix == 20

Slice(str, n) ==
    SubSeq(str, 1, IF Len(str) < n THEN Len(str) ELSE n)

\* the text of request.method
MethodText(method) ==
    IF method = "GET" THEN << "G", "E", "T" >> ELSE << "P", "O", "S", "T" >>

LogEntry(level, msg, args) ==
    [ level |-> level, msg |-> msg, args |-> args ]

\* if token.startswith("Bearer "): token = token.replace("Bearer ", "", 1)
Unprefixed(str) ==
    IF startswith(str, Bearer) THEN removeFirst(str, Bearer) ELSE str

\* the log calls of authenticate, in the order it makes them; decision is
\* what authenticate answers the request
authenticate_log(cfg, req, decision) ==
    IF ~cfg.auth_enabled
    THEN << LogEntry("info", "Authentication disabled, allowing request to {}",
                     << req.path >>) >>
    ELSE IF req.path = InfoPath
    THEN << LogEntry("info", "Skipping authentication for health check endpoint {}",
                     << req.path >>) >>
    ELSE IF decision = HTTPException(401, MissingBearerToken)
    THEN << LogEntry("info", "Authenticating request to {}", << req.path >>),
            LogEntry("warning", "Authentication failed: Missing Bearer Token for {}",
                     << req.path >>) >>
    ELSE << LogEntry("info", "Authenticating request to {}", << req.path >>),
            LogEntry("info", "Validating token: {}...",
                     << Slice(Unprefixed(get_token_from_request(req).v),
                              TokenLogPrefix) >>),
            IF ~decision.allowed
            THEN LogEntry("warning", "Authentication failed: Invalid Bearer Token for {}",
                          << req.path >>)
            ELSE LogEntry("info", "Authentication successful for {}", << req.path >>) >>

\* str(request.headers): every header with its name and its value
RECURSIVE ReprItems(_)
ReprItems(items) ==
    IF items = << >> THEN << >>
    ELSE << "'" >> \o items[1][1] \o << "'", ":", " ", "'" >> \o items[1][2]
         \o << "'" >> \o (IF Len(items) > 1 THEN << ",", " " >> ELSE << >>)
         \o ReprItems(Tail(items))

ReprHeaders(headers) ==
    << "H", "e", "a", "d", "e", "r", "s", "(", "{" >> \o ReprItems(headers.items)
    \o << "}", ")" >>

\* dict(request.headers)
HeadersDict(headers) ==
    [ kind |-> "dict", items |-> headers.items ]

NoHeaders == [ kind |-> "dict", items |-> << >> ]

Call(method, url, headers, params, data) ==
    [ method |-> method, url |-> url, headers |-> headers, params |-> params,
      data |-> data ]

\* a call that is made again when it raises
send_Retry(call, outcome) ==
    IF outcome.ok THEN << call >> ELSE << call, call >>

\* requests.get / requests.request: the calls that go to the upstream
send(call, outcome) ==
    << call >>

\* the answer of the upstream, passed on with its status
Passed(outcome) ==
    [ allowed |-> TRUE, status |-> outcome.status, field |-> "", text |-> << >> ]

ErrorProxyingHealthCheck ==
    << "E", "r", "r", "o", "r", " ", "p", "r", "o", "x", "y", "i", "n", "g",
       " ", "h", "e", "a", "l", "t", "h", " ", "c", "h", "e", "c", "k",
       ":", " " >>

ErrorProxyingSSE ==
    << "E", "r", "r", "o", "r", " ", "p", "r", "o", "x", "y", "i", "n", "g",
       " ", "S", "S", "E", ":", " " >>

ErrorProxyingStream ==
    << "E", "r", "r", "o", "r", " ", "p", "r", "o", "x", "y", "i", "n", "g",
       " ", "s", "t", "r", "e", "a", "m", ":", " " >>

ErrorProxyingRequest ==
    << "E", "r", "r", "o", "r", " ", "p", "r", "o", "x", "y", "i", "n", "g",
       " ", "r", "e", "q", "u", "e", "s", "t", ":", " " >>

\* the status of the HTTPException the routes raise when the call raises
ProxyErrorStatus == 500

\* the body of an endpoint: try: the call, the log calls after it and the
\* response; except Exception as e: logger.error(...) and HTTPException(...)
Endpoint(r, call, prefix, before, after, outcome) ==
    [ route    |-> r,
      upstream |-> send(call, outcome),
      response |-> IF outcome.ok THEN Passed(outcome)
                   ELSE HTTPException(ProxyErrorStatus, prefix \o outcome.error),
      log      |-> before \o
                   (IF outcome.ok THEN after
                    ELSE << LogEntry("error", "{}", << prefix \o outcome.error >>) >>) ]

proxy_info(req, outcome) ==
    Endpoint("proxy_info",
             Call("GET", UpstreamBase \o InfoPath, NoHeaders, << >>, << >>),
             ErrorProxyingHealthCheck, << >>, << >>, outcome)

proxy_sse(req, outcome) ==
    Endpoint("proxy_sse",
             Call("GET", UpstreamBase \o SsePath, HeadersDict(req.headers), << >>, << >>),
             ErrorProxyingSSE, << >>, << >>, outcome)

proxy_stream(req, outcome) ==
    [ Endpoint("proxy_stream",
               Call(req.method, UpstreamBase \o McpPath, HeadersDict(req.headers),
                    << >>, req.body),
               ErrorProxyingStream,
               << LogEntry("info",
                           "Proxying streamable-http request to /mcp with method {}",
                           << MethodText(req.method) >>),
                  LogEntry("info", "Request headers: {}", << ReprHeaders(req.headers) >>),
                  LogEntry("info", "Forwarding {} request to http://localhost:3399/mcp",
                           << MethodText(req.method) >>) >>,
               << LogEntry("info", "Response status: {}", << NatToStr(outcome.status) >>),
                  LogEntry("info", "Response headers: {}", << >>),
                  LogEntry("info", "Returning streaming response", << >>) >>,
               outcome)
      EXCEPT !.log = IF outcome.ok THEN @
                     ELSE @ \o << LogEntry("error", "Exception details:", << >>) >> ]

\* path is the part of the URL path after the leading slash
proxy_all(req, outcome) ==
    Endpoint("proxy_all",
             Call(req.method, UpstreamBase \o req.path, HeadersDict(req.headers),
                  req.query, req.body),
             ErrorProxyingRequest, << >>, << >>, outcome)

endpoint(r, req, outcome) ==
    CASE r = "proxy_info"   -> proxy_info(req, outcome)
      [] r = "proxy_sse"    -> proxy_sse(req, outcome)
      [] r = "proxy_stream" -> proxy_stream(req, outcome)
      [] r = "proxy_all"    -> proxy_all(req, outcome)

\* the log calls of the dependencies of route r
dependencies_log(r, cfg, req, decision) ==
    IF "authenticate" \in dependencies(r) THEN authenticate_log(cfg, req, decision)
    ELSE << >>

\* FastAPI: the dependencies of the route are solved first; when one raises,
\* its HTTPException is the response and the endpoint is not called
solved(r, decision, cfg, req, outcome) ==
    IF ~decision.allowed
    THEN [ route |-> r, upstream |-> << >>, response |-> decision,
           log |-> dependencies_log(r, cfg, req, decision) ]
    ELSE [ endpoint(r, req, outcome)
           EXCEPT !.log = dependencies_log(r, cfg, req, decision) \o @ ]

routed(r, cfg, req, clock, outcome) ==
    solved(r,
           IF "authenticate" \in dependencies(r) THEN authenticate(cfg, req, clock)
           ELSE Allow,
           cfg, req, outcome)

app(cfg, req, clock, outcome) ==
    routed(route(req.method, req.path), cfg, req, clock, outcome)

ConnectionRefused ==
    << "C", "o", "n", "n", "e", "c", "t", "i", "o", "n", " ", "r", "e", "f",
       "u", "s", "e", "d" >>

\* what the upstream does with a call: it answers, or the call raises
UpstreamOutcomes ==
    { [ ok |-> TRUE,  status |-> 200, error |-> << >> ],
      [ ok |-> TRUE,  status |-> 503, error |-> << >> ],
      [ ok |-> FALSE, status |-> 0,   error |-> ConnectionRefused ] }

Connection ==
    << "c", "o", "n", "n", "e", "c", "t", "i", "o", "n" >>

KeepAlive ==
    << "k", "e", "e", "p", "-", "a", "l", "i", "v", "e" >>

\* the query strings and bodies of the requests
Queries == { << >>, << << "x", "1" >> >> }

Bodies == { << >>, << 104, 105 >> }

\* the request of a client of the proxy
ProxyRequest(method, path, form, query, body, hop) ==
    [ method  |-> method, path |-> path, query |-> query, body |-> body,
      headers |-> [ kind  |-> "Headers",
                    items |-> Headers(form).items \o
                              (IF hop THEN << << Connection, KeepAlive >> >>
                               ELSE << >>) ] ]

\* the proxy handles a request of the client
Proxy(method, path, form, query, body, hop, outcome) ==
    /\ server # NoCall
    /\ server.program = "auth_proxy"
    /\ proxied = NoCall
    /\ form = "bearer" => token # PyNone
    /\ proxied' = [ req |-> ProxyRequest(method, path, form, query, body, hop),
                    form |-> form, at |-> now, outcome |-> outcome ]
                  @@ app(server, ProxyRequest(method, path, form, query, body, hop),
                         now, outcome)
    /\ UNCHANGED << now, issued, token, tamper, checked, server, request, response,
                    extracted, inflight, transport >>

NextProxy ==
    \/ \E enabled \in BOOLEAN, secret \in { PyNone, PyStr(<< "k" >>) } :
          StartProxy(enabled, secret,
                     [ readable |-> FALSE, enabled |-> "absent", secret_key |-> PyNone ])
    \/ \E s \in { PyStr(<< "k" >>), PyStr(<< "s" >>) }, e \in { PyInt(1), PyInt(-1) } :
          Generate(s, PyNone, e, PyNone, Repeat("a", JtiLen))
    \/ \E method \in { "GET", "POST" }, path \in { InfoPath, SsePath, McpPath, ToolPath },
          form \in { "absent", "bearer", "abc" }, query \in Queries, body \in Bodies,
          hop \in BOOLEAN, outcome \in UpstreamOutcomes :
            Proxy(method, path, form, query, body, hop, outcome)

SpecProxy == Init /\ [][NextProxy]_vars

(***************************************************************************)
(* main.py, __main__: the transport the server runs.  mode is              *)
(* MCP_TRANSPORT_MODE lowercased; installs tells whether the Starlette app *)
(* of the FastMCP server (mcp._app) can be read and replaced, which        *)
(* depends on the installed fastmcp.  The gate of a transport is what      *)
(* stands between its requests and the tool handlers.                      *)
(***************************************************************************)
Modes == { "sse", "streamable-http", "stdio" }

HttpModes == { "sse", "streamable-http" }

\* sse: the middleware is set up only when auth_enabled, and an exception
\* while it is added is logged before mcp.run(transport="sse") is called.
\* streamable-http: utils/auth_transport.py defines no
\* AuthenticatedStreamableHttpTransport, the import raises, and the except
\* block runs the standard transport.
run(cfg, mode, installs) ==
    [ mode |-> mode,
      gate |-> IF mode = "sse" /\ cfg.auth_enabled /\ installs
               THEN "AuthMiddleware.dispatch" ELSE "none" ]

\* python main.py reaches __main__ after the configuration is loaded
Run(mode, installs) ==
    /\ server # NoCall
    /\ server.program = "main"
    /\ transport = NoCall
    /\ transport' = run(server, mode, installs)
    /\ UNCHANGED << now, issued, token, tamper, checked, server, request, response,
                    extracted, inflight, proxied >>

\* a request arrives at the HTTP transport: the installed gate decides it,
\* and without a gate it goes to the handlers
Serve(path, form) ==
    /\ transport # NoCall
    /\ transport.mode \in HttpModes
    /\ request = NoCall
    /\ form = "bearer" => token # PyNone
    /\ LET req == [ gate |-> transport.gate, path |-> path, form |-> form,
                    at |-> now, headers |-> Headers(form) ]
       IN  /\ request' = [ gate |-> transport.gate, path |-> path, form |-> form,
                            at |-> now, headers |-> Headers(form),
                            credential |-> get_token_from_request(req) ]
           /\ response' = IF transport.gate = "none" THEN Allow
                          ELSE AuthMiddleware_dispatch(server, req, now)
    /\ UNCHANGED << now, issued, token, tamper, checked, server, extracted, inflight,
                    proxied, transport >>

NextTransport ==
    \/ Tick
    \/ \E enabled \in BOOLEAN :
          StartMain(FALSE, enabled, PyStr(<< "k" >>), TRUE,
                    [ readable |-> FALSE, enabled |-> "absent", secret_key |-> PyNone ],
                    PyStr(<< "a", "f" >>))
    \/ \E s \in { PyStr(<< "k" >>), PyStr(<< "s" >>) }, e \in { PyInt(1), PyInt(-1) } :
          Generate(s, PyNone, e, PyNone, Repeat("a", JtiLen))
    \/ \E mode \in Modes, installs \in BOOLEAN : Run(mode, installs)
    \/ \E path \in { InfoPath, ToolPath }, form \in { "absent", "bearer", "abc" } :
          Serve(path, form)

SpecTransport == Init /\ [][NextTransport]_vars

(***************************************************************************)
(* Properties of the token codec.                                          *)
(***************************************************************************)
\* the client's token is as generated and was last validated with the
\* secret it was generated with
RoundTrip ==
    /\ issued # NoCall
    /\ issued.ok
    /\ tamper = NoCall
    /\ checked # NoCall
    /\ checked.token = token
    /\ checked.secret_key = issued.secret_key

\* the additional_data of the generate_token call, as a dict
Additional == IF issued.additional_data = PyNone THEN << >> ELSE issued.additional_data.v

\* payload[k] = x
Carries(payload, k, x) ==
    /\ payload.t = "obj"
    /\ DictHas(payload.v, k)
    /\ DictGet(payload.v, k) = x

CarriesAdditional(payload) ==
    \A i \in DOMAIN Additional : Carries(payload, Additional[i][1], Additional[i][2])

\* the exp claim derived from expiry_seconds
DerivedExp == PyInt(IntTime(issued.at) + issued.expiry_seconds.v)

ExpNotPast(at) ==
    IF DictHas(Additional, KeyExp)
    THEN /\ DictGet(Additional, KeyExp).t = "int"
         /\ ~(DictGet(Additional, KeyExp).v * TicksPerSecond < at)
    ELSE \/ issued.expiry_seconds \in { PyNone, PyInt(0) }
         \/ ~(DerivedExp.v * TicksPerSecond < at)

OtherSecret ==
    /\ issued # NoCall
    /\ issued.ok
    /\ tamper = NoCall
    /\ checked # NoCall
    /\ checked.token = token
    /\ Truthy(checked.secret_key)
    /\ checked.secret_key # issued.secret_key

\* C3 as stated: for all non-empty secrets secretA # secretB,
\* validate_token(generate_token(secretA, c), secretB) returns (False, None).
C3_WrongSecretEverySecret ==
    OtherSecret => checked.result = Invalid

\* C3 (amended): wrong secret.  For all non-empty secrets secretA and
\* secretB of at most one HMAC block that differ otherwise than by trailing
\* NUL characters, validate_token(generate_token(secretA, c), secretB)
\* returns (False, None).
C3_WrongSecret ==
    (OtherSecret /\ rstrip(checked.secret_key.v, NUL) # rstrip(issued.secret_key.v, NUL))
        => checked.result = Invalid

\* a token generated with "k" was rejected under "s" at a time it is valid under "k"
C3_Witness ==
    /\ OtherSecret
    /\ issued.secret_key = PyStr(<< "k" >>)
    /\ checked.secret_key = PyStr(<< "s" >>)
    /\ ExpNotPast(checked.at)
    /\ checked.result = Invalid

\* C4 as stated: a token generated with a negative expiry_seconds is rejected
\* at once; a token generated at t with expiry_seconds = N > 0 is accepted
\* at t and rejected at every clock value greater than t + N.
C4_ExpiryEveryToken ==
    (RoundTrip /\ issued.expiry_seconds # PyNone) =>
        /\ issued.expiry_seconds.v < 0 => ~checked.result.valid
        /\ (issued.expiry_seconds.v > 0 /\ checked.at = issued.at) => checked.result.valid
        /\ (issued.expiry_seconds.v > 0
              /\ checked.at > issued.at + issued.expiry_seconds.v * TicksPerSecond)
              => ~checked.result.valid

\* C4 (amended): expiry.  An "exp" key of additional_data replaces the exp
\* derived from expiry_seconds: a token whose additional_data carries an
\* integer exp is rejected when that exp is before the validation time and
\* accepted otherwise, whatever expiry_seconds was.  When additional_data
\* has no "exp" key: a token generated with a negative expiry_seconds is
\* rejected at once, and a token generated at t with expiry_seconds = N > 0
\* is accepted at t and rejected at every clock value greater than t + N.
C4_Expiry ==
    RoundTrip =>
        /\ (/\ DictHas(Additional, KeyExp)
            /\ DictGet(Additional, KeyExp).t = "int"
            /\ DictGet(Additional, KeyExp).v * TicksPerSecond < checked.at)
              => checked.result = Invalid
        /\ (/\ DictHas(Additional, KeyExp)
            /\ DictGet(Additional, KeyExp).t = "int"
            /\ ~(DictGet(Additional, KeyExp).v * TicksPerSecond < checked.at))
              => checked.result.valid
        /\ (issued.expiry_seconds # PyNone /\ ~DictHas(Additional, KeyExp)) =>
              /\ issued.expiry_seconds.v < 0 => checked.result = Invalid
              /\ (issued.expiry_seconds.v > 0 /\ checked.at = issued.at)
                    => checked.result.valid
              /\ (issued.expiry_seconds.v > 0
                    /\ checked.at > issued.at + issued.expiry_seconds.v * TicksPerSecond)
                    => checked.result = Invalid

\* a token with expiry_seconds = 1 and no exp in additional_data was
\* rejected after its expiry
C4_Witness ==
    /\ RoundTrip
    /\ issued.expiry_seconds = PyInt(1)
    /\ ~DictHas(Additional, KeyExp)
    /\ checked.at > issued.at + TicksPerSecond
    /\ checked.result = Invalid

\* the client's token is the generated one with one character of the
\* payload segment or of the signature segment replaced, and was last
\* validated with the secret it was generated with
TamperedRoundTrip ==
    /\ issued # NoCall
    /\ issued.ok
    /\ tamper # NoCall
    /\ tamper.pos # tamper.dot
    /\ checked # NoCall
    /\ checked.token = token
    /\ checked.secret_key = issued.secret_key

\* C2: tamper detection.  Replacing any single character of the payload
\* segment or of the signature segment of a generated token by a different
\* character makes validate_token return (False, None) under the secret
\* the token was generated with.
C2_TamperDetected ==
    TamperedRoundTrip => checked.result = Invalid

\* a token with a replaced base64 digit in its payload segment, unexpired
\* as generated, was rejected
C2_Witness ==
    /\ TamperedRoundTrip
    /\ tamper.pos < tamper.dot
    /\ tamper.ch = "B"
    /\ ExpNotPast(checked.at)
    /\ checked.result = Invalid

(***************************************************************************)
(* Properties of the gates.                                                *)
(***************************************************************************)
\* a gate decided a request while authentication is enabled
Enforced == request # NoCall /\ server.auth_enabled

\* C5: fail-safe.  Whenever authentication is enabled and no shared secret
\* was configured (unset or empty), no request to a non-bypass path is
\* allowed, whatever token it carries, in main.py (which substitutes a
\* random secret) and in the auth proxy (which validates against the unset
\* secret).
C5_FailSafe ==
    (Enforced /\ ~Truthy(server.configured_secret) /\ request.path # InfoPath)
        => ~response.allowed

\* the proxy, with an empty secret, denied a token signed with the empty key
C5_Witness ==
    /\ Enforced
    /\ server.program = "auth_proxy"
    /\ server.configured_secret = PyStr(<< >>)
    /\ issued # NoCall
    /\ issued.call = "forge"
    /\ issued.secret_key = PyStr(<< >>)
    /\ request.form = "bearer"
    /\ request.path = ToolPath
    /\ response.status = 401

\* the request carries "Bearer " and a token generated with the server's
\* secret that has not expired
ValidCredential ==
    /\ request.form = "bearer"
    /\ issued.call = "generate_token"
    /\ tamper = NoCall
    /\ issued.secret_key = server.auth_secret_key
    /\ ExpNotPast(request.at)

\* C6: a valid credential is allowed.  With authentication enabled and a
\* non-empty shared secret, a request to a non-bypass path whose
\* Authorization header is "Bearer " followed by a correctly signed,
\* unexpired token is allowed by the gate and not answered 401 or 403.
C6_ValidCredentialAllowed ==
    (Enforced /\ Truthy(server.auth_secret_key) /\ request.path # InfoPath /\ ValidCredential)
        => (response.allowed /\ response.status \notin { 401, 403 })

\* authenticate_request allowed a valid credential on the tool path
C6_Witness ==
    /\ Enforced
    /\ request.gate = "authenticate_request"
    /\ request.path = ToolPath
    /\ ValidCredential
    /\ response.allowed

InvalidTokenText ==
    << "I", "n", "v", "a", "l", "i", "d", " ", "t", "o", "k", "e", "n" >>

\* the request carries "Bearer " and a token that fails validation
InvalidCredential ==
    /\ request.form = "bearer"
    /\ ~validate_token(token, server.auth_secret_key, request.at).valid

\* C7 as stated: with authentication enabled, a request to a protected path
\* whose bearer token fails validation is denied with status 401 and a
\* body whose reason text contains "Invalid token".
C7_InvalidCredentialDenied ==
    (Enforced /\ request.path = ToolPath /\ InvalidCredential)
        => (/\ ~response.allowed
            /\ response.status = 401
            /\ Contains(response.text, InvalidTokenText))

MissingHeaderText ==
    << "M", "i", "s", "s", "i", "n", "g", " ", "A", "u", "t", "h", "o", "r",
       "i", "z", "a", "t", "i", "o", "n", " ", "h", "e", "a", "d", "e", "r" >>

\* C8 as stated: with authentication enabled, a request to a protected path
\* without an Authorization header is denied with status 401 and a body
\* whose detail field contains "Missing Authorization header".
C8_MissingHeaderDenied ==
    (Enforced /\ request.path = ToolPath /\ request.form = "absent")
        => (/\ ~response.allowed
            /\ response.status = 401
            /\ response.field = "detail"
            /\ Contains(response.text, MissingHeaderText))

\* C9 as stated: a request to the bypass path /mcp/info is allowed by every
\* gate, whatever its Authorization header and whatever the shared secret.
C9_BypassAllowed ==
    (request # NoCall /\ request.path = InfoPath) => response.allowed

\* C10 as stated: while authentication is enforced, requests without a
\* token to /mcp/health_check, /mcp/info, /docs and /openapi.json, and to
\* any path that has a bypass path as a prefix, are allowed by the gates of
\* main.py.
C10_ExemptRoutes ==
    (/\ Enforced
     /\ request.gate \in { "authenticate_request", "AuthMiddleware.dispatch" }
     /\ request.form = "absent"
     /\ request.path \in { HealthCheckPath, InfoPath, DocsPath, OpenApiPath, InfoSubPath })
        => response.allowed

\* C11: disabled gate.  When the authentication-enabled flag is false,
\* every request is allowed, for every path and every Authorization header
\* (absent, malformed, invalid or valid): the flag is looked at before the
\* path, the header and the token.
C11_DisabledAllowsAll ==
    (request # NoCall /\ ~server.auth_enabled)
        => (response.allowed /\ response = Allow)

\* main.py, disabled, allowed a request to the tool path that carries an
\* expired token
C11_Witness ==
    /\ request # NoCall
    /\ server.program = "main"
    /\ ~server.auth_enabled
    /\ request.path = ToolPath
    /\ request.form = "bearer"
    /\ issued.call = "generate_token"
    /\ issued.expiry_seconds = PyInt(-1)
    /\ response.allowed

\* C12 as stated: when authentication is enabled, the path is not a bypass
\* path and the shared secret is empty at decision time, the gate denies
\* the request with a 500-class response, whatever its Authorization header.
C12_MisconfiguredDenied500 ==
    (Enforced /\ request.path # InfoPath /\ ~Truthy(server.auth_secret_key))
        => (~response.allowed /\ response.status \in 500..599)

\* the denial class of a header form: the header is absent, present without
\* the prefix "Bearer ", "Bearer " with an empty token, or carries a token
DenialClass(form) ==
    CASE form = "absent"              -> "MISSING_HEADER"
      [] form \in { "basic", "lower" } -> "MALFORMED_HEADER"
      [] form = "empty"               -> "EMPTY_TOKEN"
      [] OTHER                        -> "INVALID_TOKEN"

\* the request decided, sent with another Authorization header
WithHeader(form) ==
    [ gate |-> request.gate, path |-> request.path, form |-> form, at |-> request.at,
      headers |-> Headers(form) ]

\* C13 as stated: the four denial classes (header absent, header without
\* the prefix "Bearer ", "Bearer " with an empty token, token that fails
\* validation) each produce a reason string different from the other
\* three: a denied request and the same request with a header of another
\* class, denied by the same gate, carry different reason strings.
C13_DistinctReasons ==
    (Enforced /\ request.path = ToolPath /\ ~response.allowed) =>
        \A form \in HeaderForms :
            (/\ form \in { "bearer", "double" } => token # PyNone
             /\ DenialClass(form) # DenialClass(request.form))
                => LET other == Decide(request.gate, WithHeader(form))
                   IN  ~other.allowed => other.text # response.text

\* C14: header extraction.  The credential extracted from "Bearer abc" is
\* "abc"; from an absent header, from "Basic xyz" and from "bearer abc" it
\* is None; from "Bearer " it is the empty string, and a gate that enforces
\* authentication denies that request with status 401.
C14_HeaderExtraction ==
    request # NoCall =>
        /\ request.form = "abc" => request.credential = PyStr(Abc)
        /\ request.form \in { "absent", "basic", "lower" } => request.credential = PyNone
        /\ request.form = "empty" => request.credential = PyStr(<< >>)
        /\ (Enforced /\ request.path # InfoPath /\ request.form = "empty")
              => (~response.allowed /\ response.status = 401)

\* authenticate_request denied "Bearer " with the empty token on the tool path
C14_Witness ==
    /\ Enforced
    /\ request.gate = "authenticate_request"
    /\ request.path = ToolPath
    /\ request.form = "empty"
    /\ request.credential = PyStr(<< >>)
    /\ response.status = 401

\* C15 as stated: the prefix is stripped exactly once.  From a header
\* "Bearer " + rest the extraction returns exactly rest, even when rest
\* contains "Bearer ": "Bearer Bearer xyz" yields "Bearer xyz".
C15_PrefixStrippedOnce ==
    (request # NoCall /\ request.form \in { "bearer", "double", "empty", "abc" })
        => request.credential = PyStr(SubSeq(HeaderValue(request.form), Len(Bearer) + 1,
                                             Len(HeaderValue(request.form))))

\* C16 as stated: iat and jti are always computed by generate_token.  The
\* payload of every generated token has iat equal to the generation time
\* and jti equal to the random identifier drawn by the call, even when
\* additional_data has the keys "iat" or "jti".
C16_IatJtiServerComputed ==
    (RoundTrip /\ checked.result.valid) =>
        /\ Carries(checked.result.payload, KeyIat, PyInt(IntTime(issued.at)))
        /\ Carries(checked.result.payload, KeyJti, PyStr(issued.jti))

\* no secret is resolved from the command line, the environment or config.yaml
NoSecretResolved ==
    /\ ~Truthy(issued.args.secret)
    /\ ~Truthy(issued.env.AUTH_SECRET_KEY)
    /\ ~(issued.config.readable /\ Truthy(issued.config.secret_key))

\* C17: generate_token with an empty or None secret fails with ValueError
\* and produces no token; the command line tool exits with status 1 and
\* prints no token when no secret is resolved from its arguments, the
\* environment or the config file.
C17_EmptySecretRefused ==
    /\ (issued.call = "generate_token" /\ ~Truthy(issued.secret_key))
          => (~issued.ok /\ issued.error = "ValueError" /\ token = PyNone)
    /\ (issued.call = "main" /\ NoSecretResolved)
          => (issued.exit = 1 /\ token = PyNone)

\* the tool, run with --secret "" and nothing else configured, exited with 1
C17_Witness ==
    /\ issued.call = "main"
    /\ NoSecretResolved
    /\ issued.args.secret = PyStr(<< >>)
    /\ issued.exit = 1
    /\ token = PyNone

\* the token validated has exactly two parts and the second is the
\* signature of the first under the secret it was validated with
WellSigned ==
    LET parts == split(checked.token.v, ".")
    IN  /\ Truthy(checked.token)
        /\ Truthy(checked.secret_key)
        /\ Len(parts) = 2
        /\ parts[2] = Sign(checked.secret_key, parts[1])

\* the payload returned has no integer exp before the time of validation
Unexpired ==
    (checked.result.payload.t = "obj" /\ DictHas(checked.result.payload.v, KeyExp))
        => /\ DictGet(checked.result.payload.v, KeyExp).t = "int"
           /\ ~(DictGet(checked.result.payload.v, KeyExp).v * TicksPerSecond < checked.at)

\* payload segments that do not decode to a JSON value, or whose expiry
\* test raises
Undecodable ==
    { "notjson", "notbase64", "lonedigit", "empty", "expstring", "number", "exptext" }

\* C18: validate_token is total.  For every token string (empty, without
\* ".", with more than one ".", with a payload that is not base64 or not
\* JSON) and every secret (None and empty included) it returns a pair;
\* the pair is (False, None) unless the token is correctly signed, its
\* payload decodes and it has not expired.
C18_ValidateTotal ==
    checked # NoCall =>
        /\ checked.result.valid \in BOOLEAN
        /\ ~checked.result.valid => checked.result = Invalid
        /\ checked.result.valid
              => (WellSigned /\ checked.result.payload # PyNone /\ Unexpired)
        /\ issued.call = "present" => checked.result = Invalid
        /\ (issued.call = "craft" /\ issued.kind \in Undecodable)
              => checked.result = Invalid

\* a correctly signed token whose payload is not JSON was answered (False, None)
C18_Witness ==
    /\ checked # NoCall
    /\ issued.call = "craft"
    /\ issued.kind = "notjson"
    /\ checked.secret_key = issued.secret_key
    /\ WellSigned
    /\ checked.result = Invalid

\* every client whose request is decided has the decision that
\* authenticate_request gives that request on its own
DecidedAlone ==
    \A c \in Clients :
        inflight[c].pc = "done"
            => inflight[c].response
                  = authenticate_request(server, RequestOf(c), inflight[c].at)

\* two decided requests with the same path and header have the same decision
SameRequestSameDecision ==
    \A c, d \in Clients :
        (/\ inflight[c].pc = "done"
         /\ inflight[d].pc = "done"
         /\ RequestOf(c) = RequestOf(d)
         /\ inflight[c].at = inflight[d].at)
            => inflight[c].response = inflight[d].response

C20_CaseInsensitiveLookup ==
    (extracted # NoCall /\ extracted.form = "abc") => extracted.result = PyStr(Abc)

(***************************************************************************)
(* Properties of the proxy routes.                                         *)
(***************************************************************************)
\* the proxy handled a request that carried the client's token
WithToken ==
    /\ proxied # NoCall
    /\ proxied.form = "bearer"

\* C21: no log entry contains the complete bearer token of the request it
\* was written for; at most a prefix of the token is logged.
C21_NoCredentialInLogs ==
    WithToken =>
        \A i \in DOMAIN proxied.log :
            \A j \in DOMAIN proxied.log[i].args :
                ~Contains(proxied.log[i].args[j], token.v)

\* the request is one that the proxy, with authentication enabled, has to
\* authenticate
Guarded ==
    /\ proxied # NoCall
    /\ server.auth_enabled
    /\ proxied.req.path # InfoPath

\* C22: with authentication enabled, a request to a path other than
\* /mcp/info goes upstream only when authenticate succeeds for it; a request
\* authenticate denies causes no upstream call and is answered with the
\* denial of authenticate.
C22_AuthPrecedesForwarding ==
    Guarded =>
        LET decision == authenticate(server, proxied.req, proxied.at)
        IN  /\ proxied.upstream # << >> => decision.allowed
            /\ ~decision.allowed => /\ proxied.upstream = << >>
                                    /\ proxied.response = decision

C22_Witness ==
    /\ Guarded
    /\ proxied.route = "proxy_stream"
    /\ proxied.form = "abc"
    /\ proxied.upstream = << >>
    /\ proxied.response.status = 401

\* the upstream call of the request was made and raised
UpstreamFailed ==
    /\ proxied # NoCall
    /\ proxied.upstream # << >>
    /\ ~proxied.outcome.ok

GatewayErrors == { 502, 503, 504 }

\* C23: when the upstream call of a proxied request fails, the proxy answers
\* with a gateway error status (502 class) and a body that carries the
\* message of the failure.
C23_UpstreamFailureIs502 ==
    UpstreamFailed =>
        /\ ~proxied.response.allowed
        /\ proxied.response.status \in GatewayErrors
        /\ Contains(proxied.response.text, proxied.outcome.error)

HopByHop == { Connection }

\* the headers of a request without the hop-by-hop ones
EndToEnd(items) ==
    Filter(items, { item \in Range(items) : lower(item[1]) \notin HopByHop })

\* the proxy forwarded the request of an authenticated client
Forwarded ==
    /\ proxied # NoCall
    /\ proxied.route # "proxy_info"
    /\ proxied.upstream # << >>

\* C26: a forwarded request goes upstream with the method, the query
\* parameters and the body of the inbound request, and with its headers
\* except the hop-by-hop ones.
C26_VerbatimForwarding ==
    Forwarded =>
        LET call == proxied.upstream[1]
        IN  /\ call.method = proxied.req.method
            /\ call.params = proxied.req.query
            /\ call.data = proxied.req.body
            /\ call.headers.items = EndToEnd(proxied.req.headers.items)

(***************************************************************************)
(* Properties of the transports.                                           *)
(***************************************************************************)
\* a request to a path that is not bypassed reached the tool handlers of an
\* HTTP transport of a server with authentication enabled
ReachedHandler ==
    /\ transport # NoCall
    /\ transport.mode \in HttpModes
    /\ request # NoCall
    /\ server.auth_enabled
    /\ request.path # InfoPath
    /\ response.allowed

\* C24: with authentication enabled, in sse and in streamable-http mode a
\* request to a path that is not bypassed reaches the tool handlers only
\* with a token that validates, whether or not the middleware or the
\* authenticated transport could be installed at startup.
C24_EnforcedInEveryTransport ==
    ReachedHandler =>
        /\ Truthy(request.credential)
        /\ validate_token(request.credential, server.auth_secret_key, request.at).valid

(***************************************************************************)
(* Properties of the claims of a generated token.                          *)
(***************************************************************************)
\* the payload segment of the client's token, decoded
TokenPayload ==
    LET payload_b64 == split(token.v, ".")[1]
    IN  json_loads(urlsafe_b64decode(payload_b64 \o Padding(payload_b64)).bytes).v

\* the client holds a token as generate_token returned it
Generated ==
    /\ issued # NoCall
    /\ issued.ok
    /\ tamper = NoCall
    /\ token # PyNone

\* C27: claim collision.  A "sub" or "exp" key of additional_data is in the
\* payload of the token with the caller's value, whatever user_id and
\* expiry_seconds were, and validate_token with the right secret accepts the
\* token exactly when the caller's integer exp is not before the clock.
C27_ClaimCollision ==
    Generated =>
        /\ DictHas(Additional, KeySub)
              => Carries(TokenPayload, KeySub, DictGet(Additional, KeySub))
        /\ DictHas(Additional, KeyExp)
              => Carries(TokenPayload, KeyExp, DictGet(Additional, KeyExp))
        /\ (/\ RoundTrip
            /\ DictHas(Additional, KeyExp)
            /\ DictGet(Additional, KeyExp).t = "int")
              => (checked.result.valid
                    <=> ~(DictGet(Additional, KeyExp).v * TicksPerSecond < checked.at))

\* a token generated with expiry_seconds = -1 and exp = 9 in additional_data
\* was accepted: the caller's exp lengthened its life
C27_Witness ==
    /\ RoundTrip
    /\ issued.expiry_seconds = PyInt(-1)
    /\ DictHas(Additional, KeyExp)
    /\ DictGet(Additional, KeyExp) = PyInt(9)
    /\ checked.result.valid
    /\ Carries(checked.result.payload, KeyExp, PyInt(9))

(***************************************************************************)
(* Properties of the configuration of main.py.                             *)
(***************************************************************************)
\* main.py loaded its configuration with BEHIND_AUTH_PROXY=true
BehindProxy ==
    /\ server # NoCall
    /\ server.program = "main"
    /\ server.behind_auth_proxy

\* C28: when BEHIND_AUTH_PROXY is true, auth_enabled is false after the
\* configuration is loaded, whatever AUTH_ENABLED and the auth.enabled entry
\* of config.yaml are, and authenticate_request allows every request.
C28_BehindProxyDisablesGate ==
    BehindProxy =>
        /\ ~server.auth_enabled
        /\ (request # NoCall /\ request.gate = "authenticate_request")
              => response.allowed

(***************************************************************************)
(* Properties of the expiry.                                               *)
(***************************************************************************)
\* the client's token carries an integer exp claim and was last validated
\* with the secret it was generated with
Expiring ==
    /\ RoundTrip
    /\ Carries(TokenPayload, KeyExp, DictGet(TokenPayload.v, KeyExp))
    /\ DictGet(TokenPayload.v, KeyExp).t = "int"

\* the exp claim of the token, in ticks of the clock
ExpTicks == DictGet(TokenPayload.v, KeyExp).v * TicksPerSecond

\* accepted at every clock value t <= E, rejected at every t > E
ExpiryBoundary ==
    Expiring => (checked.result.valid <=> checked.at <= ExpTicks)

\* a step that validates the token again after it was rejected as expired
\* does not accept it
StaysExpired ==
    (Expiring /\ ~checked.result.valid /\ checked' # NoCall /\ checked'.token = checked.token)
        => ~checked'.result.valid

\* C29: expiry boundary and monotonicity.  A correctly signed token with
\* exp = E, validated with the right secret, is accepted at every clock
\* value t <= E and rejected at every t > E; the clock never goes back, and
\* once the token has been rejected as expired no later validation accepts
\* it.
C29_ExpiryBoundary ==
    /\ []ExpiryBoundary
    /\ [][StaysExpired]_vars
    /\ [][now' >= now]_vars

\* a token with exp = 1 was accepted when the clock read exactly 1 second
C29_Witness ==
    /\ Expiring
    /\ ExpTicks = TicksPerSecond
    /\ checked.at = ExpTicks
    /\ checked.result.valid

\* a token with exp = 1 was rejected at the first clock value after 1 second
C29_WitnessRejected ==
    /\ Expiring
    /\ ExpTicks = TicksPerSecond
    /\ checked.at = ExpTicks + 1
    /\ ~checked.result.valid


\* generate_token was called with expiry_seconds = 0 or None and without an
\* exp in additional_data
NoExpiry ==
    /\ Generated
    /\ issued.call = "generate_token"
    /\ issued.expiry_seconds \in { PyNone, PyInt(0) }
    /\ ~DictHas(Additional, KeyExp)

\* the command line tool was run with --expiry 0 and printed a token
ZeroExpiryOption ==
    /\ Generated
    /\ issued.call = "main"
    /\ issued.args.expiry = PyInt(0)

\* the payload of a token generated without exp in additional_data has an
\* exp claim exactly when expiry_seconds is a non-zero integer, and a token
\* generated with expiry_seconds = 0 or None is accepted whenever it is
\* validated with the right secret
ExpOnlyWhenNonZero ==
    /\ (Generated /\ issued.call = "generate_token" /\ ~DictHas(Additional, KeyExp))
          => (DictHas(TokenPayload.v, KeyExp)
                <=> issued.expiry_seconds \notin { PyNone, PyInt(0) })
    /\ (NoExpiry /\ RoundTrip) => checked.result.valid

\* C30 as stated: zero or absent expiry means no expiry, and the command
\* line tool run with --expiry 0 uses 86400.
C30_ZeroExpiryAlwaysDefault ==
    /\ ExpOnlyWhenNonZero
    /\ ZeroExpiryOption => issued.expiry_seconds = PyInt(DefaultExpiry)

\* the value of AUTH_TOKEN_EXPIRY as a non-zero integer, or None
EnvExpiry ==
    LET str == issued.env.AUTH_TOKEN_EXPIRY
    IN  IF Truthy(str) /\ int(str.v) \notin { PyNone, PyInt(0) } THEN int(str.v)
        ELSE PyNone

\* the token_expiry of a readable config.yaml when it is non-zero, or None
ConfigExpiry ==
    IF issued.config.readable /\ Truthy(issued.config.token_expiry)
    THEN issued.config.token_expiry ELSE PyNone

\* C30 (amended): zero or absent expiry means no expiry.  generate_token puts
\* an exp claim in the payload exactly when expiry_seconds is a non-zero
\* integer (additional_data having no "exp"); with expiry_seconds = 0 or
\* None the token has no exp and validate_token with the right secret
\* accepts it at every later clock value.  The command line tool treats
\* --expiry 0 as not provided: it uses AUTH_TOKEN_EXPIRY when that is a
\* non-zero integer, else the token_expiry of config.yaml when there is one,
\* and 86400 only when neither is set.
C30_ZeroExpiry ==
    /\ ExpOnlyWhenNonZero
    /\ ZeroExpiryOption =>
          issued.expiry_seconds =
              IF EnvExpiry # PyNone THEN EnvExpiry
              ELSE IF ConfigExpiry # PyNone THEN ConfigExpiry
              ELSE PyInt(DefaultExpiry)

\* the tool was run with --expiry 0 and nothing else set an expiry: the token
\* has exp = iat + 86400 and was accepted later
C30_Witness ==
    /\ ZeroExpiryOption
    /\ EnvExpiry = PyNone
    /\ ConfigExpiry = PyNone
    /\ issued.expiry_seconds = PyInt(DefaultExpiry)
    /\ Carries(TokenPayload, KeyExp, PyInt(IntTime(issued.at) + DefaultExpiry))
    /\ RoundTrip
    /\ checked.at > issued.at
    /\ checked.result.valid

==========================================================================
